---- MODULE Spec2Model ----
(***************************************************************************)
(* Live Session Orchestrator of vc-analyst-backend: the in-memory registry *)
(* (activeSessions), the socket handlers (join-session, audio-chunk,       *)
(* disconnect), the inactivity watchdog, the Stop route, the background    *)
(* finalization (processSessionStop) and the live transcriber              *)
(* (createLiveTranscriptionOpenAI).                                        *)
(*                                                                         *)
(* One persisted session document (SessionId) is modelled; MissingId is an *)
(* id with no document.  Every `await` of a handler is an interleaving     *)
(* point: a handler is one action per stretch of synchronous code.         *)
(* Time is in milliseconds since startedAt and advances in steps of the    *)
(* watchdog period.  An audio payload is a frame [id, size]: id stands for *)
(* its bytes, size for their count; a buffer is the sequence of the frames *)
(* concatenated into it.                                                   *)
(***************************************************************************)
EXTENDS Integers, Sequences, FiniteSets, TLC

\* ---- bounds of the model ----
MaxEvents == 4
MaxSegments == 1
QuestionEvents == 2
MaxFaults == 4
StreamSeconds == 11
MaxPcmLen == 4

Sockets == {"k1", "k2"}
SocketOrder == [k \in Sockets |-> IF k = "k1" THEN 1 ELSE 2]
\* socket.organizationId set by websocketAuth: the first socket's user belongs
\* to the organization that owns the session, the second one's does not
organizationId == [k \in Sockets |-> IF k = "k1" THEN "org1" ELSE "org2"]
\* session.organization
SessionOrganization == "org1"
PayloadSizes == {0, 32000, 1048577}
TickPeriods == {1, 8}

\* ---- program constants ----
AUTO_STOP_TIMEOUT_MS == 240000
CHECK_INTERVAL_MS == 30000
BUFFER_DURATION_MS == 5000
MIN_BUFFER_SIZE == 32000
MIN_AUDIO_SIZE == 8000
MaxFrameBytes == 1048576
MaxWavBytes == 26214400
WavHeaderBytes == 44
SUGGESTION_INTERVAL_MS == 60000
MIN_CONTEXT_WORDS == 50
RecentTranscriptsMs == 180000
RollingIntervalMs == 60000
SplitMinChunkBytes == 32000
MaxChunkWavBytes == 20971520
MIN_CHUNK_SIZE == 8000
ChunkMaxRetries == 3
BackoffBaseMs == 1000
BackoffCapMs == 10000
BytesPerSecond == 32000
StreamTimerMs == 1000

SessionId == "s1"
MissingId == "s0"
SessionIds == {SessionId, MissingId}
Nil == "nil"
NoTime == -1
startedAt == 0

VARIABLES
  now,               \* Date.now()
  OPENAI_API_KEY,    \* process.env.OPENAI_API_KEY is set
  dbStatus,          \* LiveConversation.status
  dbEndedAt,         \* LiveConversation.endedAt (NoTime: unset)
  dbTotalDuration,   \* LiveConversation.totalDuration (NoTime: unset)
  dbTranscriptCount, \* LiveConversation.transcriptCount
  dbSummary,         \* LiveConversation.summary has been written
  dbSummaryState,    \* LiveConversation.summaryState
  transcripts,       \* ConversationTranscript collection, in insertion order
  activeSessions,    \* the Map: session id -> index of its entry object in heap (0: no entry)
  heap,              \* every entry object ever created (closures keep references)
  timers,            \* the running setInterval watchdog timers, named by the entry that holds the handle
  due,               \* running timers whose callback is due at the current time
  wd,                \* watchdog callbacks suspended at `await sessionDoc.save()`
  sock,              \* per socket: connection state and the handler closure
  stops,             \* Stop requests, in arrival order
  runs,              \* processSessionStop activations, in scheduling order
  flushes,           \* live-transcription provider calls in flight
  out,               \* the events the last step sent: pairs <<socket, event>>
  events,            \* messages, requests and clock advances so far
  acceptedPcm,       \* history: frames the audio-chunk handler accepted, in order
  silentSince,       \* history: time of the last accepted frame, else of the first attach
  dbQuestions,       \* session.suggestedQuestions as persisted
  dbV,               \* the version key (__v) of the session document
  qprocs,            \* suggestion callbacks and question requests, in starting order
  qout,              \* the question lists the last step sent
  genCalls,          \* history: invocations of generateQuestionSuggestions
  qidCount,          \* number of question _ids allotted so far
  tx,                \* transcribeCompleteAudio: the call in progress and the provider's faults
  wav                \* test-complete-audio.js: a PCM buffer, its WAV file and the PCM loaded back

vars == <<now, OPENAI_API_KEY, dbStatus, dbEndedAt, dbTotalDuration,
          dbTranscriptCount, dbSummary, dbSummaryState, transcripts,
          activeSessions, heap, timers, due, wd, sock, stops,
          runs, flushes, out, events, acceptedPcm, silentSince,
          dbQuestions, dbV, qprocs, qout, genCalls, qidCount, tx, wav>>

dbVars == <<dbStatus, dbEndedAt, dbTotalDuration, dbTranscriptCount,
            dbSummary, dbSummaryState>>

\* a step that neither touches the suggested questions nor sends a list
NoQuestionStep ==
  /\ qout' = {}
  /\ UNCHANGED <<dbQuestions, dbV, qprocs, genCalls, qidCount, tx, wav>>

\* ---- helpers ----
\* activeSessions.has(sid)
Has(sid) == activeSessions[sid] # 0

RECURSIVE Bytes(_)
Bytes(buf) == IF buf = <<>> THEN 0 ELSE Head(buf).size + Bytes(Tail(buf))

\* Math.floor((endedAt - startedAt) / 1000)
DurationSeconds(endedAt) == (endedAt - startedAt) \div 1000

Emit(k, ev) == {<<k, ev>>}

NoTranscription ==
  [exists |-> FALSE, socket |-> Nil, isConnected |-> FALSE,
   processingInterval |-> FALSE, audioBuffer |-> <<>>,
   completeAudioRecording |-> <<>>, lastProcessTime |-> NoTime]

\* createLiveTranscriptionOpenAI: the object returned, with the closure state
createLiveTranscription(k, t) ==
  [exists |-> TRUE, socket |-> k, isConnected |-> TRUE,
   processingInterval |-> TRUE, audioBuffer |-> <<>>,
   completeAudioRecording |-> <<>>, lastProcessTime |-> t]

\* processAudioBuffer, up to the provider call: the window it submits
processAudioBuffer(tr, t) ==
  IF ~tr.isConnected \/ Bytes(tr.audioBuffer) < MIN_BUFFER_SIZE
  THEN [tr |-> tr, submitted |-> <<>>]
  ELSE [tr |-> [tr EXCEPT !.audioBuffer = <<>>, !.lastProcessTime = t],
        submitted |-> IF Bytes(tr.audioBuffer) + WavHeaderBytes > MaxWavBytes
                      THEN <<>> ELSE tr.audioBuffer]

\* the flush test shared by send() and the 1 s interval
FlushGate_SizeOnly(tr, t) == Bytes(tr.audioBuffer) >= MIN_BUFFER_SIZE

FlushGate(tr, t) ==
  /\ t - tr.lastProcessTime >= BUFFER_DURATION_MS
  /\ Bytes(tr.audioBuffer) >= MIN_BUFFER_SIZE

\* send(audioData)
send_WhileClosed(tr, frame, t) ==
  IF frame.size = 0
  THEN [tr |-> tr, submitted |-> <<>>]
  ELSE [tr |-> [tr EXCEPT !.audioBuffer = Append(@, frame),
                          !.completeAudioRecording = Append(@, frame)],
        submitted |-> <<>>]

send(tr, frame, t) ==
  IF ~tr.isConnected \/ frame.size = 0
  THEN [tr |-> tr, submitted |-> <<>>]
  ELSE LET tr1 == [tr EXCEPT !.audioBuffer = Append(@, frame),
                            !.completeAudioRecording = Append(@, frame)]
       IN IF FlushGate(tr1, t) THEN processAudioBuffer(tr1, t)
          ELSE [tr |-> tr1, submitted |-> <<>>]

\* close()
close(tr, t) ==
  LET tr1 == [tr EXCEPT !.isConnected = FALSE, !.processingInterval = FALSE]
  IN IF Bytes(tr1.audioBuffer) >= MIN_BUFFER_SIZE
     THEN processAudioBuffer(tr1, t)
     ELSE [tr |-> tr1, submitted |-> <<>>]

\* ---- WAV files (speechToText.js, test-complete-audio.js) ----
\* no buffer at hand
NoWav == [pc |-> "none", pcm |-> <<>>, file |-> <<>>, loaded |-> <<>>]

\* header.writeUInt32LE(value, offset): the four bytes, lowest first
UInt32LE(value) ==
  <<value % 256, (value \div 256) % 256, (value \div 65536) % 256,
    (value \div 16777216) % 256>>

\* header.writeUInt16LE(value, offset)
UInt16LE(value) == <<value % 256, (value \div 256) % 256>>

\* buf.readUInt32LE(offset), offset counted from 0
readUInt32LE(buf, offset) ==
  buf[offset + 1] + 256 * buf[offset + 2] + 65536 * buf[offset + 3]
    + 16777216 * buf[offset + 4]

\* header.write of the four ASCII tags
RIFF == <<82, 73, 70, 70>>
WAVE == <<87, 65, 86, 69>>
FmtTag == <<102, 109, 116, 32>>
DataTag == <<100, 97, 116, 97>>

\* the size that pcmToWav writes into the data field
DataSize_Plus44(pcmBuffer) == Len(pcmBuffer) + 44

DataSize(pcmBuffer) == Len(pcmBuffer)

\* pcmToWav(pcmBuffer, 16000): mono, 16 bits per sample
pcmToWav(pcmBuffer) ==
  LET dataSize == DataSize(pcmBuffer)
      fileSize == 36 + dataSize
      header == RIFF \o UInt32LE(fileSize) \o WAVE
                  \o FmtTag \o UInt32LE(16) \o UInt16LE(1) \o UInt16LE(1)
                  \o UInt32LE(16000) \o UInt32LE(BytesPerSecond)
                  \o UInt16LE(2) \o UInt16LE(16)
                  \o DataTag \o UInt32LE(dataSize)
  IN header \o pcmBuffer

\* wavBuffer.slice(44) of loadWAVFileAsPCM
loadWAVFileAsPCM(wavBuffer) ==
  IF Len(wavBuffer) <= WavHeaderBytes THEN <<>>
  ELSE SubSeq(wavBuffer, WavHeaderBytes + 1, Len(wavBuffer))

\* ---- full-audio transcription (speechToText.js) ----
\* transcribeCompleteAudio before it is called; `faults`, `status` and
\* `transient` are the provider's behaviour: client.audio.transcriptions.create
\* rejects on the first `faults` attempts of every request with an error of
\* that status, whose message is one of the transient ones when `transient`;
\* with `only` > 0 it rejects the requests of that chunk alone;
\* `provider` is what getTranscriptionProvider reads from the environment
IdleTx ==
  [pc |-> "idle", chunks |-> <<>>, i |-> 0, attempt |-> 0, delays |-> <<>>,
   chunkResults |-> <<>>, failedChunks |-> 0, result |-> Nil,
   faults |-> 0, status |-> 500, transient |-> FALSE, only |-> 0,
   provider |-> "openai"]

RECURSIVE Pow2(_)
Pow2(n) == IF n = 0 THEN 1 ELSE 2 * Pow2(n - 1)

Min(a, b) == IF a <= b THEN a ELSE b

\* the provider rejects the request in flight
Rejected == tx.attempt < tx.faults /\ tx.only \in {0, tx.i}

\* the error of a rejected request
ProviderError == [status |-> tx.status, transient |-> tx.transient]

\* the errors the provider rejects a request with: server errors, a rate
\* limit, a refused key, and a bad request with or without a message that
\* holds "something went wrong", "reading your request", "timeout" or
\* "temporary"
ProviderErrors ==
  {[status |-> st, transient |-> FALSE] : st \in {500, 501, 429, 401, 400}}
    \cup {[status |-> 400, transient |-> TRUE]}

isRetryableError_Always(error) == TRUE

isRetryableError(error) ==
  \/ error.status \in {500, 502, 503, 504, 429}
  \/ error.status = 400 /\ error.transient

\* the wait before the retry that follows attempt number `attempt` (from 0)
RetryDelayMs(attempt) == Min(BackoffBaseMs * Pow2(attempt), BackoffCapMs)

\* pcmBuffer.slice(start, start + length) of a buffer of `total` bytes: the
\* bytes from `start` on, at most to the end of the buffer
slice(total, start, length) ==
  [start |-> start, length |-> Min(length, total - start)]

\* the test of splitPcmIntoChunks for a rest shorter than one second
ResidueMerged_Never(remaining, chunks) == FALSE

ResidueMerged(remaining, chunks) ==
  remaining < SplitMinChunkBytes /\ Len(chunks) > 0

\* splitPcmIntoChunks: the while loop from `offset` on; a chunk is the
\* slice of the buffer it holds
RECURSIVE SplitLoop(_, _, _)
SplitLoop(length, offset, chunks) ==
  IF offset >= length THEN chunks
  ELSE LET remaining == length - offset
           maxPcm == MaxChunkWavBytes - WavHeaderBytes
       IN IF ResidueMerged(remaining, chunks)
          THEN LET lastChunk == chunks[Len(chunks)]
                   from == offset - lastChunk.length
                   chunkSize == remaining + lastChunk.length
                   chunk == slice(length, from, chunkSize)
               IN SplitLoop(length, from + chunkSize,
                            Append(SubSeq(chunks, 1, Len(chunks) - 1), chunk))
          ELSE LET chunkSize == Min(remaining, maxPcm)
                   chunk == slice(length, offset, chunkSize)
               IN SplitLoop(length, offset + chunkSize,
                            IF chunk.length > 0 THEN Append(chunks, chunk)
                            ELSE chunks)

splitPcmIntoChunks(length) == SplitLoop(length, 0, <<>>)

\* Times of the stitched transcript are kept as the bytes of PCM that last
\* as long; Ms gives the milliseconds.
Ms(bytes) == bytes \div (BytesPerSecond \div 1000)

\* the provider's answer for a chunk has segments of one second each and
\* reports their total as its duration
ReportedDuration(res) == res.n * BytesPerSecond

\* chunkDuration of mergeTranscriptionChunks, as bytes
ChunkDuration_Reported(chunks, i, res) == ReportedDuration(res)

ChunkDuration(chunks, i, res) ==
  IF i \in DOMAIN chunks THEN chunks[i].length ELSE ReportedDuration(res)

\* the segments, with start and end in ms, that mergeTranscriptionChunks
\* makes of the chunk results from number i on; segment j of a provider
\* answer starts at j - 1 seconds
RECURSIVE MergedSegments(_, _, _, _)
MergedSegments(chunkResults, chunks, i, cumulativeOffset) ==
  IF i > Len(chunkResults) THEN <<>>
  ELSE LET res == chunkResults[i]
           chunkDuration == ChunkDuration(chunks, i, res)
           own == IF res.kind = "segments"
                  THEN [j \in 1..res.n |->
                          [start |-> (j - 1) * 1000 + Ms(cumulativeOffset),
                           end |-> j * 1000 + Ms(cumulativeOffset)]]
                  ELSE IF res.kind = "text"
                  THEN <<[start |-> Ms(cumulativeOffset),
                          end |-> Ms(cumulativeOffset + chunkDuration)]>>
                  ELSE <<>>
       IN own \o MergedSegments(chunkResults, chunks, i + 1,
                                cumulativeOffset + chunkDuration)

\* merged.duration, as bytes: the cumulative offset after the last chunk
RECURSIVE MergedDuration(_, _, _)
MergedDuration(chunkResults, chunks, i) ==
  IF i > Len(chunkResults) THEN 0
  ELSE ChunkDuration(chunks, i, chunkResults[i])
         + MergedDuration(chunkResults, chunks, i + 1)

\* r.text || "" of a chunk result, as the pieces of text it holds: the
\* placeholder names its chunk, an answer without segments has no words
ChunkText_Transcribed(res) ==
  IF res.kind # "placeholder" /\ res.n > 0
  THEN <<[kind |-> "speech", chunk |-> 0]>>
  ELSE <<>>

ChunkText(res) ==
  IF res.kind = "placeholder"
  THEN <<[kind |-> "placeholder", chunk |-> res.chunk]>>
  ELSE IF res.n > 0 THEN <<[kind |-> "speech", chunk |-> 0]>>
  ELSE <<>>

\* merged.text: the texts of the chunk results from number i on, joined
RECURSIVE MergedText(_, _)
MergedText(chunkResults, i) ==
  IF i > Len(chunkResults) THEN <<>>
  ELSE ChunkText(chunkResults[i]) \o MergedText(chunkResults, i + 1)

\* mergeTranscriptionChunks; a placeholder of a failed chunk has an empty
\* segments array
mergeTranscriptionChunks(chunkResults, chunks) ==
  IF Len(chunkResults) = 1 THEN chunkResults[1]
  ELSE LET segments == MergedSegments(chunkResults, chunks, 1, 0)
       IN [kind |-> "merged", n |-> Len(segments),
           text |-> MergedText(chunkResults, 1),
           starts |-> [j \in DOMAIN segments |-> segments[j].start],
           ends |-> [j \in DOMAIN segments |-> segments[j].end],
           duration |-> MergedDuration(chunkResults, chunks, 1)]

\* ---- question texts (liveQuestionGenerator.js) ----
\* A question is the sequence of its tokens: the words as written and the
\* punctuation marks.
Range(f) == {f[i] : i \in DOMAIN f}

PunctuationMarks == {"?", ".", ",", "'"}

\* String.prototype.toLowerCase on the words of the vocabulary
toLowerCase(w) ==
  CASE w = "What" -> "what"  [] w = "Who" -> "who"  [] w = "Can" -> "can"
    [] w = "How" -> "how"    [] w = "Continue" -> "continue"
    [] OTHER -> w

\* normalizeQuestion: lower case, punctuation replaced by blanks, blanks
\* collapsed; the result is the sequence of the words
normalizeQuestion(q) ==
  SelectSeq([i \in 1..Len(q) |-> toLowerCase(q[i])],
            LAMBDA w : w \notin PunctuationMarks)

stopWords ==
  {"the", "a", "an", "and", "or", "but", "in", "on", "at", "to", "for", "of",
   "with", "by", "from", "as", "is", "are", "was", "were", "be", "been",
   "have", "has", "had", "do", "does", "did", "will", "would", "should",
   "could", "can", "may", "might", "must", "this", "that", "these", "those",
   "what", "which", "who", "whom", "whose", "where", "when", "why", "how",
   "if", "then", "than", "so", "about", "into", "onto", "upon", "over",
   "under", "above", "below", "between", "among"}

\* the words that take part in the comparison
ComparedWords(q) ==
  {w \in Range(normalizeQuestion(q)) : Len(w) > 2 /\ w \notin stopWords}

\* calculateQuestionSimilarity, as the fraction n / d
calculateQuestionSimilarity(q1, q2) ==
  IF normalizeQuestion(q1) = normalizeQuestion(q2) THEN [n |-> 1, d |-> 1]
  ELSE IF ComparedWords(q1) = {} \/ ComparedWords(q2) = {}
  THEN [n |-> 0, d |-> 1]
  ELSE [n |-> Cardinality(ComparedWords(q1) \cap ComparedWords(q2)),
        d |-> Cardinality(ComparedWords(q1) \cup ComparedWords(q2))]

\* similarityThreshold = 0.7, in tenths
SimilarityThresholdTenths == 7

\* similarity >= similarityThreshold
TooSimilar(q1, q2) ==
  LET r == calculateQuestionSimilarity(q1, q2)
  IN 10 * r.n >= SimilarityThresholdTenths * r.d

isQuestionDuplicate(newQuestion, existingQuestions) ==
  \E i \in DOMAIN existingQuestions : TooSimilar(newQuestion, existingQuestions[i])

\* the loop of filterDuplicateQuestions over the rest of the batch
RECURSIVE FilterLoop(_, _, _)
FilterLoop(questions, existingQuestions, filtered) ==
  IF questions = <<>> THEN filtered
  ELSE LET question == Head(questions)
           seen == {normalizeQuestion(f) : f \in Range(filtered)}
       IN IF normalizeQuestion(question) \in seen
             \/ isQuestionDuplicate(question, existingQuestions)
          THEN FilterLoop(Tail(questions), existingQuestions, filtered)
          ELSE FilterLoop(Tail(questions), existingQuestions,
                          Append(filtered, question))

filterDuplicateQuestions(questions, existingQuestions) ==
  FilterLoop(questions, existingQuestions, <<>>)

\* the questions returned when the model call throws
FallbackQuestions ==
  << <<"Can", "you", "elaborate", "on", "that", "?">>,
     <<"What", "are", "the", "key", "metrics", "you", "'", "re", "tracking", "?">>,
     <<"How", "does", "this", "compare", "to", "your", "competitors", "?">> >>

\* the question returned when the answer holds no numbered question
ContinueQuestion ==
  <<"Continue", "the", "conversation", "to", "gather", "more",
    "information", ".">>

\* questions the language model may write
RevenueQuestion == <<"What", "is", "your", "revenue", "growth", "rate", "?">>
RevenueQuestionPlain == <<"what", "is", "your", "revenue", "growth", "rate">>
AnnualRevenueQuestion ==
  <<"What", "is", "your", "annual", "revenue", "growth", "rate", "?">>
CustomersQuestion == <<"Who", "are", "your", "main", "customers", "?">>

\* what the model call of generateQuestionSuggestions may produce: a JSON
\* object with questions, a text with numbered questions, or an exception
ModelReplies ==
  {[kind |-> "json",
    questions |-> <<RevenueQuestion, RevenueQuestionPlain, AnnualRevenueQuestion>>],
   [kind |-> "json", questions |-> <<CustomersQuestion>>],
   [kind |-> "text", questions |-> <<CustomersQuestion>>],
   [kind |-> "throw", questions |-> <<>>]}

\* generateQuestionSuggestions from the model call on: the questions of the
\* result, <<>> when it returns null
SuggestedQuestions(reply, existingQuestions) ==
  CASE reply.kind = "json" ->
         filterDuplicateQuestions(reply.questions, existingQuestions)
    [] reply.kind = "text" ->
         IF reply.questions # <<>> THEN reply.questions
         ELSE <<ContinueQuestion>>
    [] OTHER -> FallbackQuestions

\* ---- suggested questions: documents and callbacks ----
\* the subdocuments made from the texts of a result; _ids follow firstId
NewQuestionDocs(texts, firstId, t) ==
  [i \in 1..Len(texts) |->
     [id |-> firstId + i, question |-> texts[i], answered |-> FALSE,
      deleted |-> FALSE, createdAt |-> t, answeredAt |-> NoTime]]

\* suggestedQuestions.filter((q) => !q.deleted)
Visible(questions) == SelectSeq(questions, LAMBDA q : ~q.deleted)

\* .filter((q) => !q.deleted && !q.answered).map((q) => q.question)
OpenTexts(questions) ==
  LET open == SelectSeq(questions, LAMBDA q : ~q.deleted /\ ~q.answered)
  IN [i \in 1..Len(open) |-> open[i].question]

\* suggestedQuestions.id(qid): its index, 0 when there is none
IndexOfId(questions, qid) ==
  IF \E i \in DOMAIN questions : questions[i].id = qid
  THEN CHOOSE i \in DOMAIN questions : questions[i].id = qid
  ELSE 0

\* a callback or request that works on the suggested questions
QProc(kind, k, e, qid) ==
  [kind |-> kind, pc |-> "read", socket |-> k, entry |-> e, qid |-> qid,
   doc |-> <<>>, docV |-> 0, at |-> NoTime, lastQG |-> NoTime,
   existing |-> <<>>, texts |-> <<>>, result |-> Nil]

\* the same, finished with the given result
Finished(proc, result) ==
  [QProc(proc.kind, Nil, 0, proc.qid) EXCEPT !.pc = "done", !.result = result]

\* the final transcripts of the last three minutes, and their words; every
\* transcript text of the model has MIN_CONTEXT_WORDS words
RecentTranscripts(t) ==
  SelectSeq(transcripts,
            LAMBDA tr : tr.isFinal /\ tr.timestamp >= t - RecentTranscriptsMs)

wordCount(t) == Len(RecentTranscripts(t)) * MIN_CONTEXT_WORDS

\* the object join-session stores for a session that has no entry
NewEntry(k, t) ==
  [socket |-> k, audioBuffer |-> <<>>, transcription |-> NoTranscription,
   lastQuestionGeneration |-> NoTime,
   initialQuestionsGenerated |-> FALSE, audioChunkCount |-> 0,
   lastAudioReceived |-> t, autoStopCheckInterval |-> 0]

\* join-session on a session that already has an entry
AttachExisting_Recreate(ent, k, t) == NewEntry(k, t)

AttachExisting(ent, k, t) ==
  [ent EXCEPT !.socket = k, !.lastAudioReceived = t]

\* join-session validation: the error code sent, or Nil to go on
JoinRefusal_NoStatusCheck(seen) ==
  IF seen = "MISSING" THEN "SESSION_NOT_FOUND" ELSE Nil

JoinRefusal(seen) ==
  IF seen = "MISSING" THEN "SESSION_NOT_FOUND"
  ELSE IF seen # "ACTIVE" THEN "SESSION_INACTIVE"
  ELSE Nil

Init ==
  /\ now = 0
  /\ OPENAI_API_KEY \in BOOLEAN
  /\ dbStatus = "ACTIVE"
  /\ dbEndedAt = NoTime
  /\ dbTotalDuration = NoTime
  /\ dbTranscriptCount = 0
  /\ dbSummary = FALSE
  /\ dbSummaryState = "pending"
  /\ transcripts = <<>>
  /\ activeSessions = [sid \in SessionIds |-> 0]
  /\ heap = <<>>
  /\ timers = {}
  /\ due = {}
  /\ wd = {}
  /\ sock = [k \in Sockets |->
              [state |-> "new", currentSessionId |-> Nil, join |-> "idle",
               joinId |-> Nil, joinSeen |-> Nil]]
  /\ stops = <<>>
  /\ runs = <<>>
  /\ flushes = {}
  /\ out = {}
  /\ events = 0
  /\ acceptedPcm = <<>>
  /\ silentSince = NoTime
  /\ dbQuestions = <<>>
  /\ dbV = 0
  /\ qprocs = <<>>
  /\ qout = {}
  /\ genCalls = <<>>
  /\ qidCount = 0
  /\ tx = IdleTx
  /\ wav = NoWav

\* ---- the clock ----
\* Time passes by whole watchdog periods; every running interval becomes due.
\* Database round trips and setImmediate callbacks take no time at this
\* scale: the clock waits for the due callbacks and for the handlers that
\* are suspended at a database call.  Provider calls (flushes and
\* finalization runs) may last any number of periods.
Quiescent ==
  /\ due = {}
  /\ wd = {}
  /\ \A k \in Sockets : sock[k].join = "idle"
  /\ \A r \in DOMAIN runs : runs[r].pc \in {"transcribing", "done"}

\* the watchdog callbacks at the instants a jump of d periods passes over
\* would find less than the timeout of silence, or no entry
IdleUntil(d) ==
  IF timers = {} \/ ~Has(SessionId) THEN TRUE
  ELSE \A j \in 1..(d - 1) :
         now + j * CHECK_INTERVAL_MS
           - heap[activeSessions[SessionId]].lastAudioReceived
         < AUTO_STOP_TIMEOUT_MS

Tick(d) ==
  /\ NoQuestionStep
  /\ events < MaxEvents
  /\ Quiescent
  /\ IdleUntil(d)
  /\ events' = events + 1
  /\ now' = now + d * CHECK_INTERVAL_MS
  /\ due' = timers
  /\ out' = {}
  /\ UNCHANGED <<OPENAI_API_KEY, dbVars, transcripts, activeSessions, heap,
                 timers, wd, sock, stops, runs, flushes,
                 acceptedPcm, silentSince>>

\* ---- join-session ----
\* `await LiveConversation.findById(sessionId)`
\* A socket is "new" until its client sends its first join-session; the
\* clients connect in a fixed order.
JoinFind(k, sid) ==
  /\ NoQuestionStep
  /\ sock[k].state # "closed"
  /\ \A j \in Sockets : SocketOrder[j] < SocketOrder[k] => sock[j].state # "new"
  /\ sock[k].join = "idle"
  /\ events < MaxEvents
  /\ events' = events + 1
  /\ sock' = [sock EXCEPT ![k].state = "open",
                          ![k].join = "found", ![k].joinId = sid,
                          ![k].joinSeen = IF sid = SessionId THEN dbStatus
                                          ELSE "MISSING"]
  /\ out' = {}
  /\ UNCHANGED <<now, OPENAI_API_KEY, dbVars, transcripts, activeSessions,
                 heap, timers, due, wd, stops, runs, flushes, acceptedPcm, silentSince>>

\* the handler from the validation to the end
JoinAttach(k) ==
  /\ sock[k].join = "found"
  /\ LET sid == sock[k].joinId
         refusal == JoinRefusal(sock[k].joinSeen)
     IN IF refusal # Nil
        THEN /\ out' = Emit(k, refusal)
             /\ sock' = [sock EXCEPT ![k].join = "idle"]
             /\ qout' = {}
             /\ UNCHANGED <<activeSessions, heap, timers, silentSince, qprocs>>
        ELSE LET fresh == ~Has(sid)
                 e == IF fresh THEN Len(heap) + 1 ELSE activeSessions[sid]
                 ent == IF fresh THEN NewEntry(k, now)
                        ELSE AttachExisting(heap[e], k, now)
                 start == ent.autoStopCheckInterval = 0
                 ent1 == IF start
                         THEN [ent EXCEPT !.autoStopCheckInterval = e]
                         ELSE [ent EXCEPT !.lastAudioReceived = now]
                 \* the setImmediate of the initial questions, up to its
                 \* first await
                 ent2 == [ent1 EXCEPT !.initialQuestionsGenerated = TRUE]
             IN /\ activeSessions' =
                     IF fresh THEN [activeSessions EXCEPT ![sid] = e]
                     ELSE activeSessions
                /\ heap' = IF fresh THEN Append(heap, ent2)
                           ELSE [heap EXCEPT ![e] = ent2]
                /\ timers' = IF start THEN timers \cup {e} ELSE timers
                /\ sock' = [sock EXCEPT ![k].join = "idle",
                                        ![k].currentSessionId = sid]
                /\ out' = Emit(k, "session-status")
                /\ silentSince' = IF silentSince = NoTime THEN now
                                  ELSE silentSince
                /\ qprocs' = IF ent.initialQuestionsGenerated THEN qprocs
                             ELSE Append(qprocs, QProc("initial", k, e, 0))
                \* "Send existing suggested questions if any"
                /\ qout' = IF Visible(dbQuestions) = <<>> THEN {}
                           ELSE {[socket |-> k, event |-> "suggestion",
                                  questions |-> Visible(dbQuestions)]}
  /\ UNCHANGED <<now, OPENAI_API_KEY, dbVars, transcripts, due, wd, stops,
                 runs, flushes, events, acceptedPcm,
                 dbQuestions, dbV, genCalls, qidCount, tx, wav>>

\* the code audio-chunk reports when the provider key is not configured
MissingKeyCode_Renamed == "PROVIDER_KEY_MISSING"

MissingKeyCode == "OPENAI_API_KEY_MISSING"

\* clearInterval(entry.autoStopCheckInterval): the timer stops and no
\* callback of it runs any more
ClearedTimers(c) == timers \ {c}
ClearedDue(c) == due \ {c}

\* ---- audio-chunk ----
\* the payload is buffered iff it is neither empty nor above 1 MiB
ValidPayload(size) == ~(size = 0 \/ size > MaxFrameBytes)

\* audio-chunk finds no transcriber on the entry and no provider key
KeyMissing_Unchecked(ent) == FALSE

KeyMissing(ent) == ~ent.transcription.exists /\ ~OPENAI_API_KEY

\* the client names the session of its last join-session
AudioChunk(k, size) ==
  /\ sock[k].state = "open"
  /\ events < MaxEvents
  /\ events' = events + 1
  /\ LET frame == [id |-> Len(acceptedPcm) + 1, size |-> size]
         sid == sock[k].joinId IN
     IF sock[k].currentSessionId = Nil \/ sock[k].currentSessionId # sid
     THEN /\ out' = Emit(k, "INVALID_SESSION")
          /\ UNCHANGED <<heap, flushes, acceptedPcm, silentSince, qprocs>>
     ELSE IF ~Has(sid)
     THEN /\ out' = Emit(k, "SESSION_NOT_FOUND")
          /\ UNCHANGED <<heap, flushes, acceptedPcm, silentSince, qprocs>>
     ELSE
       LET e == activeSessions[sid]
           ent == heap[e]
       IN IF KeyMissing(ent)
          THEN /\ out' = Emit(k, MissingKeyCode)
               /\ UNCHANGED <<heap, flushes, acceptedPcm, silentSince, qprocs>>
          ELSE
            LET tr0 == IF ent.transcription.exists THEN ent.transcription
                       ELSE createLiveTranscription(k, now)
            IN IF ~ValidPayload(size)
               THEN /\ heap' = [heap EXCEPT ![e].transcription = tr0]
                    /\ out' = {}
                    /\ UNCHANGED <<flushes, acceptedPcm, silentSince, qprocs>>
               ELSE
                 LET sent == send(tr0, frame, now)
                 IN /\ heap' = [heap EXCEPT ![e] =
                         [ent EXCEPT
                            !.transcription = sent.tr,
                            !.audioBuffer = Append(@, frame),
                            !.audioChunkCount = @ + 1,
                            !.lastAudioReceived = now]]
                    /\ flushes' = IF sent.submitted = <<>> THEN flushes
                                  ELSE flushes \cup
                                       {[entry |-> e, window |-> sent.submitted]}
                    /\ out' = {}
                    /\ acceptedPcm' = Append(acceptedPcm, frame)
                    /\ silentSince' = now
                    \* the setImmediate of the rolling suggestions
                    /\ qprocs' = Append(qprocs, QProc("rolling", k, e, 0))
  /\ qout' = {}
  /\ UNCHANGED <<now, OPENAI_API_KEY, dbVars, transcripts, activeSessions,
                 timers, due, wd, sock, stops, runs,
                 dbQuestions, dbV, genCalls, qidCount, tx, wav>>

\* ---- live transcriber ----
\* the 1 s setInterval of the transcriber of entry e
StreamTimer(e) ==
  /\ NoQuestionStep
  /\ e \in DOMAIN heap
  /\ heap[e].transcription.exists
  /\ heap[e].transcription.processingInterval
  /\ FlushGate(heap[e].transcription, now)
  /\ LET p == processAudioBuffer(heap[e].transcription, now) IN
     /\ heap' = [heap EXCEPT ![e].transcription = p.tr]
     /\ flushes' = IF p.submitted = <<>> THEN flushes
                   ELSE flushes \cup {[entry |-> e, window |-> p.submitted]}
  /\ out' = {}
  /\ UNCHANGED <<now, OPENAI_API_KEY, dbVars, transcripts, activeSessions,
                 timers, due, wd, sock, stops, runs,
                 events, acceptedPcm, silentSince>>

\* the onError callback given to createLiveTranscription by the socket k
onError_OtherCode(k) == Emit(k, "TRANSCRIPTION_FAILED")

onError(k) == Emit(k, "TRANSCRIPTION_ERROR")

\* the provider answers a flush: onTranscript (text), nothing (no text) or
\* onError (the call threw)
FlushReply(f, outcome) ==
  /\ NoQuestionStep
  /\ f \in flushes
  /\ flushes' = flushes \ {f}
  /\ LET k == heap[f.entry].transcription.socket IN
     CASE outcome = "text" ->
            \* onTranscript: saved whenever the session document exists
            /\ transcripts' = Append(transcripts,
                  [origin |-> "live", isFinal |-> TRUE, timestamp |-> now])
            /\ out' = Emit(k, "transcription")
       [] outcome = "empty" -> out' = {} /\ UNCHANGED transcripts
       [] outcome = "error" ->
            /\ out' = onError(k)
            /\ UNCHANGED transcripts
  /\ UNCHANGED <<now, OPENAI_API_KEY, dbVars, activeSessions, heap, timers,
                 due, wd, sock, stops, runs, events,
                 acceptedPcm, silentSince>>

\* ---- disconnect ----
Disconnect(k) ==
  /\ NoQuestionStep
  /\ sock[k].state = "open"
  /\ events < MaxEvents
  /\ events' = events + 1
  /\ sock' = [sock EXCEPT ![k].state = "closed"]
  /\ LET sid == sock[k].currentSessionId IN
     IF /\ sid # Nil
        /\ Has(sid)
        /\ heap[activeSessions[sid]].socket = k
     THEN LET e == activeSessions[sid]
              c == heap[e].autoStopCheckInterval
          IN /\ heap' = [heap EXCEPT ![e].socket = Nil,
                                     ![e].autoStopCheckInterval = 0]
             /\ timers' = ClearedTimers(c)
             /\ due' = ClearedDue(c)
     ELSE UNCHANGED <<heap, timers, due>>
  /\ out' = {}
  /\ UNCHANGED <<now, OPENAI_API_KEY, dbVars, transcripts, activeSessions, wd,
                 stops, runs, flushes, acceptedPcm, silentSince>>

\* a scheduled processSessionStop
NewRun(by) ==
  [by |-> by, pc |-> "scheduled", entry |-> 0, audio |-> <<>>,
   called |-> FALSE, endedAt |-> NoTime, totalDuration |-> NoTime,
   summary |-> FALSE, error |-> FALSE, transcriptCount |-> 0]

\* ---- inactivity watchdog ----
\* the interval callback, up to `await sessionDoc.save()`
WatchdogFire(t) ==
  /\ NoQuestionStep
  /\ t \in due
  /\ IF ~Has(SessionId)
     THEN /\ due' = due \ {t}
          /\ UNCHANGED <<heap, timers, wd>>
     ELSE LET e == activeSessions[SessionId]
              c == heap[e].autoStopCheckInterval
          IN IF now - heap[e].lastAudioReceived >= AUTO_STOP_TIMEOUT_MS
             THEN /\ heap' = [heap EXCEPT ![e].autoStopCheckInterval = 0]
                  /\ timers' = ClearedTimers(c)
                  /\ due' = ClearedDue(c) \ {t}
                  /\ wd' = IF dbStatus = "ACTIVE"
                           THEN wd \cup {[timer |-> t, endedAt |-> now,
                                          totalDuration |-> DurationSeconds(now)]}
                           ELSE wd
             ELSE /\ due' = due \ {t}
                  /\ UNCHANGED <<heap, timers, wd>>
  /\ out' = {}
  /\ UNCHANGED <<now, OPENAI_API_KEY, dbVars, transcripts, activeSessions,
                 sock, stops, runs, flushes, events, acceptedPcm, silentSince>>

\* the save lands: the event is sent and finalization is scheduled
WatchdogSaved(w) ==
  /\ NoQuestionStep
  /\ w \in wd
  /\ wd' = wd \ {w}
  /\ dbStatus' = "ENDED"
  /\ dbEndedAt' = w.endedAt
  /\ dbTotalDuration' = w.totalDuration
  /\ out' =
       IF /\ Has(SessionId)
          /\ heap[activeSessions[SessionId]].socket # Nil
          /\ sock[heap[activeSessions[SessionId]].socket].state = "open"
       THEN Emit(heap[activeSessions[SessionId]].socket, "session-auto-stopped")
       ELSE {}
  /\ runs' = Append(runs, NewRun("watchdog"))
  /\ UNCHANGED <<now, OPENAI_API_KEY, dbTranscriptCount, dbSummary,
                 dbSummaryState, transcripts, activeSessions, heap, timers,
                 due, sock, stops, flushes, events,
                 acceptedPcm, silentSince>>

\* ---- POST /:id/stop ----
\* the whole route: the watchdog interval is cleared, the session is marked
\* ENDED and saved, processSessionStop is scheduled and the response is sent
Stop ==
  /\ NoQuestionStep
  /\ events < MaxEvents
  /\ events' = events + 1
  /\ stops' = Append(stops, [endedAt |-> now,
                             totalDuration |-> DurationSeconds(now),
                             summaryPending |-> TRUE])
  /\ IF Has(SessionId) /\ heap[activeSessions[SessionId]].autoStopCheckInterval # 0
     THEN LET e == activeSessions[SessionId]
              c == heap[e].autoStopCheckInterval
          IN /\ heap' = [heap EXCEPT ![e].autoStopCheckInterval = 0]
             /\ timers' = ClearedTimers(c)
             /\ due' = ClearedDue(c)
     ELSE UNCHANGED <<heap, timers, due>>
  /\ dbStatus' = "ENDED"
  /\ dbEndedAt' = now
  /\ dbTotalDuration' = DurationSeconds(now)
  /\ runs' = Append(runs, NewRun("stop"))
  /\ out' = {}
  /\ UNCHANGED <<now, OPENAI_API_KEY, dbTranscriptCount, dbSummary,
                 dbSummaryState, transcripts, activeSessions, wd, sock,
                 flushes, acceptedPcm, silentSince>>

\* ---- processSessionStop ----
\* from the start to the call of transcribeCompleteAudio
FinalizeStart(r) ==
  /\ NoQuestionStep
  /\ r \in DOMAIN runs
  /\ runs[r].pc = "scheduled"
  /\ LET e == activeSessions[SessionId]
         closing == e # 0 /\ heap[e].transcription.exists
         cl == IF closing THEN close(heap[e].transcription, now)
               ELSE [tr |-> NoTranscription, submitted |-> <<>>]
         audio == IF e # 0 THEN heap[e].audioBuffer ELSE <<>>
         endedAt == IF dbEndedAt # NoTime THEN dbEndedAt ELSE now
         totalDuration ==
           IF dbTotalDuration # NoTime /\ dbTotalDuration # 0
           THEN dbTotalDuration ELSE DurationSeconds(endedAt)
         call == OPENAI_API_KEY /\ audio # <<>>
     IN /\ heap' = IF closing THEN [heap EXCEPT ![e].transcription = cl.tr]
                   ELSE heap
        /\ flushes' = IF cl.submitted = <<>> THEN flushes
                      ELSE flushes \cup {[entry |-> e, window |-> cl.submitted]}
        /\ runs' = [runs EXCEPT ![r] =
                      [@ EXCEPT !.pc = IF call THEN "transcribing" ELSE "cleanup",
                                !.entry = e, !.audio = audio, !.called = call,
                                !.endedAt = endedAt,
                                !.totalDuration = totalDuration]]
  /\ out' = {}
  /\ UNCHANGED <<now, OPENAI_API_KEY, dbVars, transcripts, activeSessions,
                 timers, due, wd, sock, stops, events,
                 acceptedPcm, silentSince>>

\* what transcribeCompleteAudio may answer
ProviderResults ==
  {[kind |-> "throw", n |-> 0], [kind |-> "text", n |-> 1]}
    \cup {[kind |-> "segments", n |-> n] : n \in 0..MaxSegments}

\* timestamp of the transcript of the segment that starts at `start` seconds
SegmentTimestamp(start, t) ==
  IF start # 0 THEN startedAt + start * 1000 ELSE t

\* the transcripts saved for a result; segment i starts at i - 1 seconds
FinalTranscripts(res, t) ==
  IF res.kind = "segments"
  THEN [i \in 1..res.n |->
          [origin |-> "final", isFinal |-> TRUE,
           timestamp |-> SegmentTimestamp(i - 1, t)]]
  ELSE IF res.kind = "text"
  THEN <<[origin |-> "final", isFinal |-> TRUE, timestamp |-> startedAt]>>
  ELSE IF res.kind = "merged"
  THEN [i \in 1..res.n |->
          [origin |-> "final", isFinal |-> TRUE,
           timestamp |-> IF res.starts[i] # 0 THEN startedAt + res.starts[i]
                         ELSE t]]
  ELSE <<>>

\* transcribeCompleteAudio returns or throws; the segments are saved and the
\* summary is generated (generateMeetingSummary never throws)
FinalizeTranscribed(r, res) ==
  /\ NoQuestionStep
  /\ r \in DOMAIN runs
  /\ runs[r].pc = "transcribing"
  /\ Bytes(runs[r].audio) < MIN_AUDIO_SIZE => res.kind = "throw"
  /\ LET saved == FinalTranscripts(res, now) IN
     /\ transcripts' = transcripts \o saved
     /\ runs' = [runs EXCEPT ![r] =
                   [@ EXCEPT !.pc = "cleanup",
                             !.error = (res.kind = "throw"),
                             !.summary = (Len(saved) > 0)]]
  /\ out' = {}
  /\ UNCHANGED <<now, OPENAI_API_KEY, dbVars, activeSessions, heap, timers,
                 due, wd, sock, stops, flushes, events,
                 acceptedPcm, silentSince>>

\* countDocuments and the clean-up of the registry
FinalizeCleanup(r) ==
  /\ NoQuestionStep
  /\ r \in DOMAIN runs
  /\ runs[r].pc = "cleanup"
  /\ runs' = [runs EXCEPT ![r] = [@ EXCEPT !.pc = "commit",
                                           !.transcriptCount = Len(transcripts)]]
  /\ LET e == runs[r].entry IN
     IF e # 0
     THEN /\ heap' = [heap EXCEPT ![e].autoStopCheckInterval = 0]
          /\ timers' = ClearedTimers(heap[e].autoStopCheckInterval)
          /\ due' = ClearedDue(heap[e].autoStopCheckInterval)
          /\ activeSessions' = [activeSessions EXCEPT ![SessionId] = 0]
     ELSE UNCHANGED <<heap, timers, due, activeSessions>>
  /\ out' = {}
  /\ UNCHANGED <<now, OPENAI_API_KEY, dbVars, transcripts, wd, sock,
                 stops, flushes, events, acceptedPcm, silentSince>>

\* summaryState after the final save
SummaryStateAfter(old, summary) == old

\* the session document is read again, updated and saved
FinalizeCommit(r) ==
  /\ NoQuestionStep
  /\ r \in DOMAIN runs
  /\ runs[r].pc = "commit"
  /\ runs' = [runs EXCEPT ![r].pc = "done"]
  /\ dbStatus' = "ENDED"
  /\ dbEndedAt' = runs[r].endedAt
  /\ dbTotalDuration' = runs[r].totalDuration
  /\ dbTranscriptCount' = runs[r].transcriptCount
  /\ dbSummary' = (dbSummary \/ runs[r].summary)
  /\ dbSummaryState' = SummaryStateAfter(dbSummaryState, runs[r].summary)
  /\ out' = {}
  /\ UNCHANGED <<now, OPENAI_API_KEY, transcripts, activeSessions, heap,
                 timers, due, wd, sock, stops, flushes, events, acceptedPcm, silentSince>>

\* ---- suggestion engine and question routes ----
\* a step of a suggestion callback or of a question route: nothing of the
\* session changes but what the step names
NoSessionStep ==
  /\ out' = {}
  /\ UNCHANGED <<now, OPENAI_API_KEY, dbVars, transcripts, activeSessions,
                 timers, due, wd, sock, stops, runs, flushes, acceptedPcm,
                 silentSince, tx, wav>>

\* socket.emit of a question list; nothing is sent to no socket or to a
\* socket that is not connected
EmitList(k, ev, questions) ==
  IF k # Nil /\ sock[k].state = "open"
  THEN {[socket |-> k, event |-> ev, questions |-> Visible(questions)]}
  ELSE {}

\* the socket the rolling update sends to: the one of the registry entry if
\* connected, else the one of the handler
RollingTarget(k) ==
  IF /\ Has(SessionId)
     /\ heap[activeSessions[SessionId]].socket # Nil
     /\ sock[heap[activeSessions[SessionId]].socket].state = "open"
  THEN heap[activeSessions[SessionId]].socket
  ELSE k

\* the socket the replacement sends to
ReplacementTarget ==
  IF Has(SessionId) THEN heap[activeSessions[SessionId]].socket ELSE Nil

\* sessionDoc.save() after suggestedQuestions was assigned: the update
\* carries the version read and increments it
ArraySaveApplies(docV) == docV = dbV

\* session.save() after a field of one question was set: the update
\* carries the version read
FieldSaveApplies(docV) == docV = dbV

\* rolling suggestions: `await LiveConversation.findById(sessionId)` and the
\* reads of the clock and of lastQuestionGeneration
GateRead(p) ==
  /\ p \in DOMAIN qprocs
  /\ qprocs[p].kind = "rolling" /\ qprocs[p].pc = "read"
  /\ qprocs' = [qprocs EXCEPT ![p] =
        [@ EXCEPT !.pc = "find", !.doc = dbQuestions, !.docV = dbV,
                  !.at = now,
                  !.lastQG = heap[qprocs[p].entry].lastQuestionGeneration]]
  /\ qout' = {}
  /\ NoSessionStep
  /\ UNCHANGED <<heap, events, dbQuestions, dbV, genCalls, qidCount>>

\* rolling suggestions: the recent transcripts arrive, the gate is
\* evaluated and generateQuestionSuggestions runs up to the model call
GateDecide(p) ==
  /\ p \in DOMAIN qprocs
  /\ qprocs[p].kind = "rolling" /\ qprocs[p].pc = "find"
  /\ LET pr == qprocs[p]
         timePassed == IF pr.lastQG = NoTime THEN TRUE
                       ELSE pr.at - pr.lastQG > RollingIntervalMs
         shouldGenerate == /\ heap[pr.entry].initialQuestionsGenerated
                           /\ timePassed
                           /\ wordCount(now) >= MIN_CONTEXT_WORDS
         tooSoon == /\ pr.lastQG # NoTime
                    /\ now - pr.lastQG < SUGGESTION_INTERVAL_MS
     IN IF ~shouldGenerate
        THEN /\ qprocs' = [qprocs EXCEPT ![p] = Finished(pr, Nil)]
             /\ UNCHANGED <<heap, genCalls>>
        ELSE /\ heap' = [heap EXCEPT ![pr.entry].lastQuestionGeneration = pr.at]
             /\ IF tooSoon
                THEN /\ qprocs' = [qprocs EXCEPT ![p] = Finished(pr, Nil)]
                     /\ UNCHANGED genCalls
                ELSE /\ qprocs' = [qprocs EXCEPT ![p] =
                           [pr EXCEPT !.pc = "generating",
                                      !.existing = OpenTexts(pr.doc)]]
                     /\ genCalls' = Append(genCalls,
                                           [kind |-> "rolling", at |-> now])
  /\ qout' = {}
  /\ NoSessionStep
  /\ UNCHANGED <<events, dbQuestions, dbV, qidCount>>

\* initial suggestions: the session is read and the generator is called
InitialRead(p) ==
  /\ p \in DOMAIN qprocs
  /\ qprocs[p].kind = "initial" /\ qprocs[p].pc = "read"
  /\ qprocs' = [qprocs EXCEPT ![p] =
        [@ EXCEPT !.pc = "generating", !.doc = dbQuestions, !.docV = dbV,
                  !.existing = OpenTexts(dbQuestions)]]
  /\ genCalls' = Append(genCalls, [kind |-> "initial", at |-> now])
  /\ qout' = {}
  /\ NoSessionStep
  /\ UNCHANGED <<heap, events, dbQuestions, dbV, qidCount>>

\* PATCH /:id/questions/:questionId/answered, up to `await session.save()`
MarkAnsweredRequest(qid) ==
  /\ events < MaxEvents
  /\ events' = events + 1
  /\ LET i == IndexOfId(dbQuestions, qid)
         pr == QProc("answer", Nil, 0, qid)
     IN qprocs' = Append(qprocs,
          IF i = 0 THEN Finished(pr, "404")
          ELSE IF dbQuestions[i].answered THEN Finished(pr, "already")
          ELSE [pr EXCEPT !.pc = "save", !.doc = dbQuestions, !.docV = dbV])
  /\ qout' = {}
  /\ NoSessionStep
  /\ UNCHANGED <<heap, dbQuestions, dbV, genCalls, qidCount>>

\* the save of answered = true lands; the response is sent and the
\* replacement callback runs up to the model call
AnswerSave(p) ==
  /\ p \in DOMAIN qprocs
  /\ qprocs[p].kind = "answer" /\ qprocs[p].pc = "save"
  /\ LET pr == qprocs[p]
         i == IndexOfId(pr.doc, pr.qid)
         others == SelectSeq(pr.doc, LAMBDA q : ~q.deleted /\ q.id # pr.qid)
     IN IF ~FieldSaveApplies(pr.docV)
        THEN /\ qprocs' = [qprocs EXCEPT ![p] = Finished(pr, "500")]
             /\ UNCHANGED <<dbQuestions, genCalls>>
        ELSE /\ dbQuestions' = [dbQuestions EXCEPT ![i].answered = TRUE,
                                                 ![i].answeredAt = now]
             /\ qprocs' = [qprocs EXCEPT ![p] =
                   [pr EXCEPT !.pc = "generating", !.result = "200",
                              !.existing =
                                [j \in 1..Len(others) |-> others[j].question]]]
             /\ genCalls' = Append(genCalls,
                                   [kind |-> "replacement", at |-> now])
  /\ qout' = {}
  /\ NoSessionStep
  /\ UNCHANGED <<heap, events, dbV, qidCount>>

\* DELETE /:id/questions/:questionId, up to `await session.save()`
DeleteRequest(qid) ==
  /\ events < MaxEvents
  /\ events' = events + 1
  /\ LET i == IndexOfId(dbQuestions, qid)
         pr == QProc("delete", Nil, 0, qid)
     IN qprocs' = Append(qprocs,
          IF i = 0 THEN Finished(pr, "404")
          ELSE [pr EXCEPT !.pc = "save", !.doc = dbQuestions, !.docV = dbV])
  /\ qout' = {}
  /\ NoSessionStep
  /\ UNCHANGED <<heap, dbQuestions, dbV, genCalls, qidCount>>

\* the save of deleted = true lands and the response is sent
DeleteSave(p) ==
  /\ p \in DOMAIN qprocs
  /\ qprocs[p].kind = "delete" /\ qprocs[p].pc = "save"
  /\ LET pr == qprocs[p]
         i == IndexOfId(pr.doc, pr.qid)
     IN IF ~FieldSaveApplies(pr.docV)
        THEN /\ qprocs' = [qprocs EXCEPT ![p] = Finished(pr, "500")]
             /\ UNCHANGED dbQuestions
        ELSE /\ dbQuestions' = [dbQuestions EXCEPT ![i].deleted = TRUE]
             /\ qprocs' = [qprocs EXCEPT ![p] = Finished(pr, "200")]
  /\ qout' = {}
  /\ NoSessionStep
  /\ UNCHANGED <<heap, events, dbV, genCalls, qidCount>>

\* generateQuestionSuggestions returns to its caller.  The rolling and the
\* initial callback assign suggestedQuestions of the document they read,
\* save it, read the session again and send the list; the replacement
\* callback reads the session again.
GenReply(p, reply) ==
  /\ p \in DOMAIN qprocs
  /\ qprocs[p].pc = "generating"
  /\ ~OPENAI_API_KEY => reply.kind = "throw"
  /\ LET pr == qprocs[p]
         texts == SuggestedQuestions(reply, pr.existing)
         newQuestions == NewQuestionDocs(texts, qidCount, now)
         assigned == IF pr.kind = "rolling"
                     THEN newQuestions \o Visible(pr.doc)
                     ELSE newQuestions
     IN IF texts = <<>>
        THEN /\ qprocs' = [qprocs EXCEPT ![p] = Finished(pr, pr.result)]
             /\ qout' = {}
             /\ UNCHANGED <<dbQuestions, dbV, qidCount>>
        ELSE IF pr.kind = "answer"
        THEN /\ qprocs' = [qprocs EXCEPT ![p] =
                   [pr EXCEPT !.pc = "write", !.texts = texts,
                              !.doc = dbQuestions, !.docV = dbV]]
             /\ qout' = {}
             /\ UNCHANGED <<dbQuestions, dbV, qidCount>>
        ELSE /\ qprocs' = [qprocs EXCEPT ![p] = Finished(pr, pr.result)]
             /\ IF ArraySaveApplies(pr.docV)
                THEN /\ dbQuestions' = assigned
                     /\ dbV' = dbV + 1
                     /\ qidCount' = qidCount + Len(texts)
                     /\ qout' = IF pr.kind = "rolling"
                                THEN EmitList(RollingTarget(pr.socket),
                                              "suggested-questions-updated",
                                              assigned)
                                ELSE EmitList(pr.socket, "suggestion", assigned)
                ELSE /\ qout' = {}
                     /\ UNCHANGED <<dbQuestions, dbV, qidCount>>
  /\ NoSessionStep
  /\ UNCHANGED <<heap, events, genCalls>>

\* the replacement callback puts the first new question in the place of the
\* answered one and the others on top, saves, reads the session again and
\* sends the list
ReplaceWrite(p) ==
  /\ p \in DOMAIN qprocs
  /\ qprocs[p].kind = "answer" /\ qprocs[p].pc = "write"
  /\ LET pr == qprocs[p]
         questionIndex == IndexOfId(pr.doc, pr.qid)
         newQuestions == NewQuestionDocs(pr.texts, qidCount, now)
         allQuestions == [pr.doc EXCEPT ![questionIndex] = newQuestions[1]]
         assigned == Tail(newQuestions) \o allQuestions
     IN /\ qprocs' = [qprocs EXCEPT ![p] = Finished(pr, pr.result)]
        /\ IF questionIndex # 0 /\ ArraySaveApplies(pr.docV)
           THEN /\ dbQuestions' = assigned
                /\ dbV' = dbV + 1
                /\ qidCount' = qidCount + Len(pr.texts)
                /\ qout' = EmitList(ReplacementTarget,
                                    "suggested-questions-updated", assigned)
           ELSE /\ qout' = {}
                /\ UNCHANGED <<dbQuestions, dbV, qidCount>>
  /\ NoSessionStep
  /\ UNCHANGED <<heap, events, genCalls>>

\* ---- the suggestion engine on an attached session ----
\* A state of Spec extended by the initial suggestions: socket k1 joined at
\* time 0 and sent one second of audio, the initial questions were either
\* saved at once or are still being generated, one watchdog period later
\* the live transcriber flushed its window and the transcript was saved.
InitialQuestions ==
  NewQuestionDocs(<<RevenueQuestion, CustomersQuestion>>, 0, 0)

QuestionInit ==
  /\ now = CHECK_INTERVAL_MS
  /\ OPENAI_API_KEY = TRUE
  /\ dbStatus = "ACTIVE"
  /\ dbEndedAt = NoTime
  /\ dbTotalDuration = NoTime
  /\ dbTranscriptCount = 0
  /\ dbSummary = FALSE
  /\ dbSummaryState = "pending"
  /\ transcripts = <<[origin |-> "live", isFinal |-> TRUE,
                      timestamp |-> CHECK_INTERVAL_MS]>>
  /\ activeSessions = [sid \in SessionIds |-> IF sid = SessionId THEN 1 ELSE 0]
  /\ heap = <<[NewEntry("k1", 0) EXCEPT
                 !.initialQuestionsGenerated = TRUE,
                 !.autoStopCheckInterval = 1,
                 !.audioChunkCount = 1,
                 !.audioBuffer = <<[id |-> 1, size |-> MIN_BUFFER_SIZE]>>,
                 !.transcription =
                    [createLiveTranscription("k1", CHECK_INTERVAL_MS) EXCEPT
                       !.completeAudioRecording =
                          <<[id |-> 1, size |-> MIN_BUFFER_SIZE]>>]]>>
  /\ timers = {1}
  /\ due = {}
  /\ wd = {}
  /\ sock = [k \in Sockets |->
              IF k = "k1"
              THEN [state |-> "open", currentSessionId |-> SessionId,
                    join |-> "idle", joinId |-> SessionId, joinSeen |-> "ACTIVE"]
              ELSE [state |-> "new", currentSessionId |-> Nil, join |-> "idle",
                    joinId |-> Nil, joinSeen |-> Nil]]
  /\ stops = <<>>
  /\ runs = <<>>
  /\ flushes = {}
  /\ out = {}
  /\ events = MaxEvents - QuestionEvents
  /\ acceptedPcm = <<[id |-> 1, size |-> MIN_BUFFER_SIZE]>>
  /\ silentSince = 0
  /\ qout = {}
  /\ tx = IdleTx
  /\ wav = NoWav
  /\ \/ /\ dbQuestions = InitialQuestions
        /\ dbV = 1
        /\ qidCount = Len(InitialQuestions)
        /\ qprocs = <<Finished(QProc("initial", "k1", 1, 0), Nil),
                      Finished(QProc("rolling", "k1", 1, 0), Nil)>>
        /\ genCalls = <<[kind |-> "initial", at |-> 0]>>
     \/ /\ dbQuestions = <<>>
        /\ dbV = 0
        /\ qidCount = 0
        /\ qprocs = <<QProc("initial", "k1", 1, 0),
                      Finished(QProc("rolling", "k1", 1, 0), Nil)>>
        /\ genCalls = <<>>

\* the questions the client marks or deletes: the first ones suggested
RequestedIds == {i \in DOMAIN InitialQuestions : i <= qidCount}

QuestionNext ==
  \/ \E k \in Sockets : AudioChunk(k, MIN_BUFFER_SIZE)
  \/ \E p \in DOMAIN qprocs : GateRead(p)
  \/ \E p \in DOMAIN qprocs : GateDecide(p)
  \/ \E p \in DOMAIN qprocs : InitialRead(p)
  \/ \E qid \in RequestedIds : MarkAnsweredRequest(qid)
  \/ \E p \in DOMAIN qprocs : AnswerSave(p)
  \/ \E qid \in RequestedIds : DeleteRequest(qid)
  \/ \E p \in DOMAIN qprocs : DeleteSave(p)
  \/ \E p \in DOMAIN qprocs, reply \in ModelReplies : GenReply(p, reply)
  \/ \E p \in DOMAIN qprocs : ReplaceWrite(p)

QuestionSpec == QuestionInit /\ [][QuestionNext]_vars

\* ---- transcribeCompleteAudio, step by step ----
\* what only the full-audio transcriber changes
TranscriberStep ==
  /\ out' = {}
  /\ qout' = {}
  /\ UNCHANGED <<OPENAI_API_KEY, dbVars, transcripts, activeSessions, heap,
                 timers, due, wd, sock, stops, runs, flushes, events,
                 acceptedPcm, silentSince, dbQuestions, dbV, qprocs,
                 genCalls, qidCount, wav>>

\* the WAV of `length` bytes of PCM is small enough for one request
FitsOneRequest_20MiB(length) == length + WavHeaderBytes <= MaxChunkWavBytes

FitsOneRequest(length) == length + WavHeaderBytes <= MaxWavBytes

\* normalizeElevenLabsResponse: a response without segments but with text
\* gets one segment from 0 to the duration
normalizeElevenLabsResponse(res) ==
  IF res.kind = "text" THEN [kind |-> "segments", n |-> 1] ELSE res

\* what the single request returns for the provider's answer
SingleResult(answer) ==
  IF tx.provider = "elevenlabs" THEN normalizeElevenLabsResponse(answer)
  ELSE answer

\* transcribeCompleteAudio up to the first provider request: the buffer is
\* validated and sent whole, or split by transcribeCompleteAudioOpenAI;
\* transcribeCompleteAudioElevenLabs never splits
TranscribeBegin(r) ==
  /\ r \in DOMAIN runs
  /\ runs[r].pc = "transcribing"
  /\ tx.pc = "idle"
  /\ LET length == Bytes(runs[r].audio) IN
     tx' = IF length < MIN_AUDIO_SIZE
           THEN [tx EXCEPT !.pc = "threw",
                           !.result = [kind |-> "throw", n |-> 0]]
           ELSE IF \/ tx.provider = "elevenlabs"
                   \/ FitsOneRequest(length)
           THEN [tx EXCEPT !.pc = "request"]
           ELSE [tx EXCEPT !.pc = "request",
                           !.chunks = splitPcmIntoChunks(length), !.i = 1]
  /\ UNCHANGED now
  /\ TranscriberStep

\* the successful answers of the provider
ProviderAnswers == {res \in ProviderResults : res.kind # "throw"}

\* the chunk loop after the result of chunk tx.i is known
AfterChunk(res, failed) ==
  LET results == Append(tx.chunkResults, res)
      nFailed == tx.failedChunks + (IF failed THEN 1 ELSE 0)
  IN IF tx.i < Len(tx.chunks)
     THEN [tx EXCEPT !.i = @ + 1, !.attempt = 0, !.chunkResults = results,
                     !.failedChunks = nFailed]
     ELSE IF nFailed = Len(tx.chunks)
     THEN [tx EXCEPT !.pc = "threw", !.chunkResults = results,
                     !.failedChunks = nFailed,
                     !.result = [kind |-> "throw", n |-> 0]]
     ELSE [tx EXCEPT !.pc = "returned", !.chunkResults = results,
                     !.failedChunks = nFailed,
                     !.result = mergeTranscriptionChunks(results, tx.chunks)]

\* the result pushed for chunk i when it was not transcribed: its text names
\* the chunk, its segments are empty
Placeholder(i) == [kind |-> "placeholder", n |-> 0, chunk |-> i]

\* client.audio.transcriptions.create settles.  The single request has no
\* catch: its error leaves transcribeCompleteAudioOpenAI.  A chunk is
\* retried by transcribeAudioChunkOpenAI.
ProviderReply(answer) ==
  /\ tx.pc = "request"
  /\ LET rejected == Rejected IN
     IF tx.chunks = <<>>
     THEN tx' = IF rejected
                THEN [tx EXCEPT !.pc = "threw",
                                !.result = [kind |-> "throw", n |-> 0]]
                ELSE [tx EXCEPT !.pc = "returned",
                                !.result = SingleResult(answer)]
     ELSE IF tx.chunks[tx.i].length < MIN_CHUNK_SIZE
     THEN tx' = AfterChunk(Placeholder(tx.i), TRUE)
     ELSE IF ~rejected
     THEN tx' = AfterChunk(answer, FALSE)
     ELSE IF tx.attempt < ChunkMaxRetries /\ isRetryableError(ProviderError)
     THEN tx' = [tx EXCEPT !.pc = "backoff",
                           !.delays = Append(@, [chunk |-> tx.i,
                                                 ms |-> RetryDelayMs(tx.attempt)])]
     ELSE tx' = AfterChunk(Placeholder(tx.i), TRUE)
  /\ UNCHANGED now
  /\ TranscriberStep

\* the setTimeout of the backoff fires and the next attempt is sent
BackoffElapsed ==
  /\ tx.pc = "backoff"
  /\ now' = now + tx.delays[Len(tx.delays)].ms
  /\ tx' = [tx EXCEPT !.pc = "request", !.attempt = @ + 1]
  /\ TranscriberStep

\* processSessionStop receives what transcribeCompleteAudio returned or threw
TranscribeSettled(r) ==
  /\ tx.pc \in {"returned", "threw"}
  /\ FinalizeTranscribed(r, tx.result)

\* the recordings of the transcriber's specification, as frame counts:
\* a quarter of a second short, one frame, and frames of MaxFrameBytes that
\* fill more than one request
RecordingOf(frames, size) == [i \in 1..frames |-> [id |-> i, size |-> size]]

Recordings ==
  {RecordingOf(1, MIN_AUDIO_SIZE \div 2), RecordingOf(1, MIN_BUFFER_SIZE),
   RecordingOf(1, MIN_AUDIO_SIZE),
   Append(RecordingOf(24, MaxFrameBytes),
          [id |-> 25, size |-> MaxFrameBytes - WavHeaderBytes]),
   Append(RecordingOf(24, MaxFrameBytes),
          [id |-> 25, size |-> MaxFrameBytes - WavHeaderBytes + 1]),
   RecordingOf(26, MaxFrameBytes), RecordingOf(40, MaxFrameBytes),
   RecordingOf(41, MaxFrameBytes)}
    \cup {Append(RecordingOf(40, MaxFrameBytes), [id |-> 41, size |-> size]) :
            size \in {SplitMinChunkBytes - 89, SplitMinChunkBytes - 88}}

\* a session that was stopped after the recording was received; its
\* finalization run is about to call transcribeCompleteAudio
TranscribeInit ==
  /\ now = CHECK_INTERVAL_MS
  /\ OPENAI_API_KEY = TRUE
  /\ dbStatus = "ENDED"
  /\ dbEndedAt = CHECK_INTERVAL_MS
  /\ dbTotalDuration = DurationSeconds(CHECK_INTERVAL_MS)
  /\ dbTranscriptCount = 0
  /\ dbSummary = FALSE
  /\ dbSummaryState = "pending"
  /\ transcripts = <<>>
  /\ activeSessions = [sid \in SessionIds |-> IF sid = SessionId THEN 1 ELSE 0]
  /\ \E audio \in Recordings :
       /\ heap = <<[NewEntry("k1", 0) EXCEPT
                      !.initialQuestionsGenerated = TRUE,
                      !.audioChunkCount = Len(audio),
                      !.audioBuffer = audio,
                      !.transcription =
                         [createLiveTranscription("k1", 0) EXCEPT
                            !.isConnected = FALSE,
                            !.processingInterval = FALSE,
                            !.completeAudioRecording = audio]]>>
       /\ runs = <<[NewRun("stop") EXCEPT
                      !.pc = "transcribing", !.entry = 1, !.audio = audio,
                      !.called = TRUE, !.endedAt = CHECK_INTERVAL_MS,
                      !.totalDuration = DurationSeconds(CHECK_INTERVAL_MS)]>>
       /\ acceptedPcm = audio
       /\ qprocs = <<Finished(QProc("initial", "k1", 1, 0), Nil)>>
                     \o [i \in 1..Len(audio) |->
                           Finished(QProc("rolling", "k1", 1, 0), Nil)]
  /\ timers = {}
  /\ due = {}
  /\ wd = {}
  /\ sock = [k \in Sockets |->
              IF k = "k1"
              THEN [state |-> "open", currentSessionId |-> SessionId,
                    join |-> "idle", joinId |-> SessionId, joinSeen |-> "ACTIVE"]
              ELSE [state |-> "new", currentSessionId |-> Nil, join |-> "idle",
                    joinId |-> Nil, joinSeen |-> Nil]]
  /\ stops = <<[endedAt |-> CHECK_INTERVAL_MS,
                totalDuration |-> DurationSeconds(CHECK_INTERVAL_MS),
                summaryPending |-> TRUE]>>
  /\ flushes = {}
  /\ out = {}
  /\ events = MaxEvents
  /\ silentSince = 0
  /\ dbQuestions = InitialQuestions
  /\ dbV = 1
  /\ qout = {}
  /\ genCalls = <<[kind |-> "initial", at |-> 0]>>
  /\ qidCount = Len(InitialQuestions)
  /\ wav = NoWav
  /\ \E faults \in 0..MaxFaults, error \in ProviderErrors,
        provider \in {"openai", "elevenlabs"}, only \in 0..2 :
       tx = [IdleTx EXCEPT !.faults = faults, !.status = error.status,
                           !.transient = error.transient, !.only = only,
                           !.provider = provider]

TranscribeNext ==
  \/ \E r \in DOMAIN runs : TranscribeBegin(r)
  \/ \E answer \in ProviderAnswers : ProviderReply(answer)
  \/ BackoffElapsed
  \/ \E r \in DOMAIN runs : TranscribeSettled(r)
  \/ \E r \in DOMAIN runs : FinalizeCleanup(r)
  \/ \E r \in DOMAIN runs : FinalizeCommit(r)

TranscribeSpec == TranscribeInit /\ [][TranscribeNext]_vars

\* ---- the live transcriber second by second ----
\* One period of the transcriber's setInterval passes.  The span stays
\* below the first callback of the inactivity watchdog.
StreamClock ==
  /\ NoQuestionStep
  /\ now + StreamTimerMs <= StreamSeconds * 1000
  /\ now' = now + StreamTimerMs
  /\ out' = {}
  /\ UNCHANGED <<OPENAI_API_KEY, dbVars, transcripts, activeSessions, heap,
                 timers, due, wd, sock, stops, runs, flushes, events,
                 acceptedPcm, silentSince>>

\* the payloads of the streaming client: half a second and one second
StreamPayloads == {MIN_BUFFER_SIZE \div 2, MIN_BUFFER_SIZE}

\* the first socket has joined the active session at time 0; three more
\* requests of the client follow
StreamInit ==
  /\ now = 0
  /\ OPENAI_API_KEY = TRUE
  /\ dbStatus = "ACTIVE"
  /\ dbEndedAt = NoTime
  /\ dbTotalDuration = NoTime
  /\ dbTranscriptCount = 0
  /\ dbSummary = FALSE
  /\ dbSummaryState = "pending"
  /\ transcripts = <<>>
  /\ activeSessions = [sid \in SessionIds |-> IF sid = SessionId THEN 1 ELSE 0]
  /\ heap = <<[NewEntry("k1", 0) EXCEPT !.initialQuestionsGenerated = TRUE,
                                        !.autoStopCheckInterval = 1]>>
  /\ timers = {1}
  /\ due = {}
  /\ wd = {}
  /\ sock = [k \in Sockets |->
              IF k = "k1"
              THEN [state |-> "open", currentSessionId |-> SessionId,
                    join |-> "idle", joinId |-> SessionId, joinSeen |-> "ACTIVE"]
              ELSE [state |-> "new", currentSessionId |-> Nil, join |-> "idle",
                    joinId |-> Nil, joinSeen |-> Nil]]
  /\ stops = <<>>
  /\ runs = <<>>
  /\ flushes = {}
  /\ out = {}
  /\ events = MaxEvents - 3
  /\ acceptedPcm = <<>>
  /\ silentSince = 0
  /\ dbQuestions = <<>>
  /\ dbV = 0
  /\ qprocs = <<QProc("initial", "k1", 1, 0)>>
  /\ qout = {}
  /\ genCalls = <<>>
  /\ qidCount = 0
  /\ tx = IdleTx
  /\ wav = NoWav

StreamNext ==
  \/ StreamClock
  \/ \E size \in StreamPayloads : AudioChunk("k1", size)
  \/ \E e \in DOMAIN heap : StreamTimer(e)
  \/ \E f \in flushes, outcome \in {"text", "empty", "error"} :
        FlushReply(f, outcome)
  \/ Stop
  \/ \E r \in DOMAIN runs : FinalizeStart(r)

StreamSpec == StreamInit /\ [][StreamNext]_vars

\* ---- the WAV round trip of test-complete-audio.js ----
\* a buffer of `length` bytes whose byte i is i * step modulo 256
PatternPcm(length, step) == [i \in 1..length |-> (i * step) % 256]

\* all buffers of at most MaxPcmLen bytes of silence and full scale
RECURSIVE ShortPcm(_)
ShortPcm(n) ==
  IF n = 0 THEN {<<>>}
  ELSE ShortPcm(n - 1)
         \cup {Append(p, b) : p \in {q \in ShortPcm(n - 1) : Len(q) = n - 1},
                               b \in {0, 255}}

\* the buffers tried: the short ones, and longer ones around the length at
\* which the RIFF size needs its second byte
PcmBuffers ==
  ShortPcm(MaxPcmLen)
    \cup {PatternPcm(length, 7) : length \in {219, 220, 221, 256, 300}}

\* every other variable stays as it is
WavStep ==
  /\ out' = {}
  /\ qout' = {}
  /\ UNCHANGED <<now, OPENAI_API_KEY, dbVars, transcripts, activeSessions,
                 heap, timers, due, wd, sock, stops, runs, flushes, events,
                 acceptedPcm, silentSince, dbQuestions, dbV, qprocs,
                 genCalls, qidCount, tx>>

\* savePCMAsWAV: the file written is pcmToWav(pcmBuffer)
savePCMAsWAV ==
  /\ wav.pc = "pcm"
  /\ wav' = [wav EXCEPT !.pc = "saved", !.file = pcmToWav(wav.pcm)]
  /\ WavStep

\* loadWAVFileAsPCM on the file written
LoadWav ==
  /\ wav.pc = "saved"
  /\ wav' = [wav EXCEPT !.pc = "loaded", !.loaded = loadWAVFileAsPCM(wav.file)]
  /\ WavStep

WavInit ==
  /\ now = 0
  /\ OPENAI_API_KEY = TRUE
  /\ dbStatus = "ACTIVE"
  /\ dbEndedAt = NoTime
  /\ dbTotalDuration = NoTime
  /\ dbTranscriptCount = 0
  /\ dbSummary = FALSE
  /\ dbSummaryState = "pending"
  /\ transcripts = <<>>
  /\ activeSessions = [sid \in SessionIds |-> 0]
  /\ heap = <<>>
  /\ timers = {}
  /\ due = {}
  /\ wd = {}
  /\ sock = [k \in Sockets |->
              [state |-> "new", currentSessionId |-> Nil, join |-> "idle",
               joinId |-> Nil, joinSeen |-> Nil]]
  /\ stops = <<>>
  /\ runs = <<>>
  /\ flushes = {}
  /\ out = {}
  /\ events = 0
  /\ acceptedPcm = <<>>
  /\ silentSince = NoTime
  /\ dbQuestions = <<>>
  /\ dbV = 0
  /\ qprocs = <<>>
  /\ qout = {}
  /\ genCalls = <<>>
  /\ qidCount = 0
  /\ tx = IdleTx
  /\ \E p \in PcmBuffers : wav = [NoWav EXCEPT !.pc = "pcm", !.pcm = p]

WavNext == savePCMAsWAV \/ LoadWav

WavSpec == WavInit /\ [][WavNext]_vars

Next ==
  \/ \E d \in TickPeriods : Tick(d)
  \/ \E k \in Sockets, sid \in SessionIds : JoinFind(k, sid)
  \/ \E k \in Sockets : JoinAttach(k)
  \/ \E k \in Sockets, size \in PayloadSizes : AudioChunk(k, size)
  \/ \E e \in DOMAIN heap : StreamTimer(e)
  \/ \E f \in flushes, outcome \in {"text", "empty", "error"} :
        FlushReply(f, outcome)
  \/ \E k \in Sockets : Disconnect(k)
  \/ \E t \in due : WatchdogFire(t)
  \/ \E w \in wd : WatchdogSaved(w)
  \/ Stop
  \/ \E r \in DOMAIN runs : FinalizeStart(r)
  \/ \E r \in DOMAIN runs, res \in ProviderResults : FinalizeTranscribed(r, res)
  \/ \E r \in DOMAIN runs : FinalizeCleanup(r)
  \/ \E r \in DOMAIN runs : FinalizeCommit(r)

Spec == Init /\ [][Next]_vars

\* ---------------------------------------------------------------------
\* Properties
\* ---------------------------------------------------------------------

\* the runs of processSessionStop that a Stop request scheduled
StopRuns == {r \in DOMAIN runs : runs[r].by = "stop"}

\* C1 (idempotent stop): however many Stop requests the session receives,
\* together they cause exactly one run of processSessionStop.
C1_IdempotentStop ==
  Len(stops) >= 1 => Cardinality(StopRuns) = 1

\* C2 (PCM conservation): the frames a finished finalization handed to the
\* full-audio transcriber are exactly the accepted frames, in receipt order.
C2_PcmConservation ==
  \A r \in DOMAIN runs :
     (runs[r].pc = "done" /\ runs[r].called) => runs[r].audio = acceptedPcm

\* a join-session step of socket k that passes validation and finds the
\* session already in activeSessions
JoinsExisting(k) ==
  /\ sock[k].join = "found"
  /\ sock'[k].join = "idle"
  /\ sock[k].joinSeen = "ACTIVE"
  /\ Has(sock[k].joinId)

C4_WatchdogDeadline ==
  ( /\ Has(SessionId)
    /\ silentSince # NoTime
    /\ now - silentSince >= AUTO_STOP_TIMEOUT_MS + CHECK_INTERVAL_MS
    /\ due = {}
    /\ wd = {} )
  => dbStatus # "ACTIVE"

\* C5 (audio after stop is dropped): once the session is ENDED no
\* audio-chunk is accepted: no buffer of the session grows.
C5_AudioAfterStopDropped ==
  [][dbStatus = "ENDED" =>
       /\ acceptedPcm' = acceptedPcm
       /\ \A e \in DOMAIN heap :
            heap'[e].audioBuffer = heap[e].audioBuffer]_vars

\* C6 (reattach after end refused): a join-session that finds the session
\* not ACTIVE answers SESSION_INACTIVE (SESSION_NOT_FOUND when there is no
\* such session) and creates no registry entry, no watchdog timer and no
\* initial questions.
C6_ReattachRefused ==
  [][\A k \in Sockets :
       ( /\ sock[k].join = "found"
         /\ sock'[k].join = "idle"
         /\ sock[k].joinSeen # "ACTIVE" )
       => /\ out' = {<<k, IF sock[k].joinSeen = "MISSING"
                          THEN "SESSION_NOT_FOUND"
                          ELSE "SESSION_INACTIVE">>}
          /\ activeSessions' = activeSessions
          /\ heap' = heap
          /\ timers' = timers
          /\ sock'[k].currentSessionId = sock[k].currentSessionId]_vars

\* C6 witness: a join-session on the ended session has just been refused
\* and the session has no registry entry
C6_Refused ==
  /\ dbStatus = "ENDED"
  /\ ~Has(SessionId)
  /\ \E k \in Sockets : out = {<<k, "SESSION_INACTIVE">>}

\* C7 (stable stop snapshot): every Stop response carries the endedAt and
\* the duration of the first one, with summaryPending = true.
C7_StableStopSnapshot ==
  \A i \in DOMAIN stops :
     /\ stops[i].endedAt = stops[1].endedAt
     /\ stops[i].totalDuration = stops[1].totalDuration
     /\ stops[i].summaryPending

\* C8 (summary implies completed): a session that has a summary has
\* summaryState completed.
C8_SummaryImpliesCompleted ==
  dbSummary => dbSummaryState = "completed"

\* C9 (failed finalization recorded): a finalization that hit an
\* unrecoverable error, or found no registry entry, leaves the session
\* FAILED with summaryState failed and no registry entry.
C9_FailedFinalizationRecorded ==
  \A r \in DOMAIN runs :
     (runs[r].pc = "done" /\ (runs[r].error \/ runs[r].entry = 0))
     => /\ dbStatus = "FAILED"
        /\ dbSummaryState = "failed"
        /\ ~Has(SessionId)

\* the live transcripts persisted so far
LiveTranscripts(ts) == {i \in DOMAIN ts : ts[i].origin = "live"}

\* C10 (no live transcripts after Ended): once the session is ENDED no
\* live transcript is persisted any more.
C10_NoLiveTranscriptsAfterEnd ==
  [][dbStatus = "ENDED" =>
       Cardinality(LiveTranscripts(transcripts'))
         = Cardinality(LiveTranscripts(transcripts))]_vars

\* C17 (detach does not stop the watchdog): a socket disconnect leaves every
\* watchdog timer running and every lastAudioReceived unchanged.
C17_DetachKeepsWatchdog ==
  [][\A k \in Sockets :
       (sock[k].state = "open" /\ sock'[k].state = "closed")
       => /\ timers' = timers
          /\ \A e \in DOMAIN heap :
               /\ heap'[e].autoStopCheckInterval = heap[e].autoStopCheckInterval
               /\ heap'[e].lastAudioReceived = heap[e].lastAudioReceived]_vars

\* the events of the attach channel that are not errors
StatusEvents == {"session-status", "transcription", "session-auto-stopped"}

\* the error codes sent by the last step
ErrorCodesSent == {m[2] : m \in out} \ StatusEvents

C11_DedupSound ==
  \A i, j \in DOMAIN Visible(dbQuestions) :
     i < j => ~TooSimilar(Visible(dbQuestions)[i].question,
                          Visible(dbQuestions)[j].question)

\* C12 (suggestion rate limit): two invocations of the generator by the
\* rolling path are at least 60 s apart.
C12_RollingRateLimit ==
  \A i, j \in DOMAIN genCalls :
     (i < j /\ genCalls[i].kind = "rolling" /\ genCalls[j].kind = "rolling")
     => genCalls[j].at - genCalls[i].at >= SUGGESTION_INTERVAL_MS

\* C13 (write-once flags): a persisted question that is answered stays
\* answered, and one that is deleted stays deleted, as long as it is in the
\* list.
C13_WriteOnceFlags ==
  [][\A i \in DOMAIN dbQuestions, j \in DOMAIN dbQuestions' :
       dbQuestions[i].id = dbQuestions'[j].id
       => /\ dbQuestions[i].answered => dbQuestions'[j].answered
          /\ dbQuestions[i].deleted => dbQuestions'[j].deleted]_vars

\* the _ids of a question list, in order
IdsOf(questions) == [i \in DOMAIN questions |-> questions[i].id]

\* C14 (linearized question updates): every write of suggestedQuestions is
\* made from a current copy: a callback that assigns the whole list read
\* the list as it is persisted now, and a route that sets one field read
\* the same questions in the same places.
C14_LinearizedUpdates ==
  [][dbQuestions' # dbQuestions =>
       \A p \in DOMAIN qprocs :
          qprocs'[p] # qprocs[p]
          => IF qprocs[p].pc = "save"
             THEN IdsOf(qprocs[p].doc) = IdsOf(dbQuestions)
             ELSE qprocs[p].doc = dbQuestions]_vars

\* C15 (visible list order): every question list sent holds exactly the
\* questions that are not deleted, newest first.
C15_VisibleListOrder ==
  \A m \in qout :
     /\ m.questions = Visible(dbQuestions)
     /\ \A i, j \in DOMAIN m.questions :
          i < j => m.questions[i].createdAt >= m.questions[j].createdAt

\* C16 (MarkAnswered and Delete are idempotent): after a call for a question
\* succeeded, a second call for it succeeds as well, and a second
\* MarkAnswered starts no second replacement.
C16_IdempotentRequests ==
  \A p, q \in DOMAIN qprocs :
     ( /\ p < q
       /\ qprocs[p].kind \in {"answer", "delete"}
       /\ qprocs[q].kind = qprocs[p].kind
       /\ qprocs[q].qid = qprocs[p].qid
       /\ qprocs[p].result = "200"
       /\ qprocs[q].result # Nil )
     => IF qprocs[p].kind = "answer" THEN qprocs[q].result = "already"
        ELSE qprocs[q].result = "200"

\* C20 (question-change notification): when a question of a session with an
\* attached socket becomes answered or deleted, the complete list of the
\* questions that are not deleted is sent to that socket as
\* suggested-questions-updated.
C20_ChangeNotified ==
  [][( /\ Has(SessionId)
       /\ heap[activeSessions[SessionId]].socket # Nil
       /\ \E i \in DOMAIN dbQuestions, j \in DOMAIN dbQuestions' :
            /\ dbQuestions[i].id = dbQuestions'[j].id
            /\ \/ ~dbQuestions[i].answered /\ dbQuestions'[j].answered
               \/ ~dbQuestions[i].deleted /\ dbQuestions'[j].deleted )
     => \E m \in qout' :
          /\ m.event = "suggested-questions-updated"
          /\ m.socket = heap[activeSessions[SessionId]].socket
          /\ m.questions = Visible(dbQuestions')]_vars

\* C18 (provider 5xx storm is absorbed): when the provider rejects the first
\* two attempts of every full-audio request with 500 and answers the third
\* with a transcript, the finalization of a session with audio ends with
\* final transcripts and a summary, and every request waited 1 s and then
\* 2 s before its retries.
C18_StormAbsorbed ==
  \A r \in DOMAIN runs :
     ( /\ runs[r].pc = "done"
       /\ tx.faults = 2 /\ tx.status = 500
       /\ Bytes(runs[r].audio) >= MIN_AUDIO_SIZE
       /\ tx.result.kind = "throw"
          \/ \A i \in DOMAIN tx.chunkResults : tx.chunkResults[i].n > 0
       /\ tx.result.kind \in {"segments", "merged"} => tx.result.n > 0 )
     => /\ dbSummary
        /\ \E i \in DOMAIN transcripts : transcripts[i].origin = "final"
        /\ \A c \in 1..Len(tx.chunks) :
             SelectSeq(tx.delays, LAMBDA d : d.chunk = c)
               = <<[chunk |-> c, ms |-> 1000], [chunk |-> c, ms |-> 2000]>>

\* C21 (PCM is kept until commit): while a finalization run that found a
\* Registry entry has not saved its outcome to the Session, the entry with
\* the cumulative PCM is still in the Registry.
C21_PcmKeptUntilCommit ==
  \A r \in DOMAIN runs :
     ( /\ runs[r].entry # 0 /\ runs[r].audio # <<>>
       /\ runs[r].pc \in {"transcribing", "cleanup", "commit"} )
     => activeSessions[SessionId] = runs[r].entry

\* C22 (replacement flow): when the replacement callback of MarkAnswered on
\* question Q has k >= 1 new questions, the list it leaves holds Q with
\* answered = true and answeredAt set, the first new question in the place Q
\* had in the list read by the callback, the other k-1 new questions on top
\* in the generator's order, and the other questions in their order with
\* their flags.
C22_ReplacementFlow ==
  [][\A p \in DOMAIN qprocs :
       ( /\ qprocs[p].kind = "answer" /\ qprocs[p].pc = "write"
         /\ qprocs'[p].pc = "done" )
       => LET pr == qprocs[p]
              k == Len(pr.texts)
              place == IndexOfId(pr.doc, pr.qid)
              old(questions) ==
                SelectSeq(questions, LAMBDA q : q.id <= qidCount /\ q.id # pr.qid)
          IN /\ \E j \in DOMAIN dbQuestions' :
                  /\ dbQuestions'[j].id = pr.qid
                  /\ dbQuestions'[j].answered
                  /\ dbQuestions'[j].answeredAt # NoTime
             /\ place # 0
             /\ Len(dbQuestions') >= place + k - 1
             /\ dbQuestions'[place + k - 1].question = pr.texts[1]
             /\ \A i \in 1..(k - 1) : dbQuestions'[i].question = pr.texts[i + 1]
             /\ old(dbQuestions') = old(pr.doc)]_vars

\* the recording of the run that called transcribeCompleteAudio was split
WasSplit(r) == runs[r].pc = "transcribing" /\ tx.chunks # <<>>

\* C23 (chunk splitting) with the merged residue allowed for: the chunks of
\* a recording whose WAV exceeds 25 MiB are consecutive slices that cover
\* the recording, each holds at least 1 s of audio, each but the last is at
\* most 20 MiB as WAV, the last exceeds 20 MiB by less than 1 s of audio, and
\* a last chunk is started only for a rest of at least 1 s.
C23_SplitCoversRecording ==
  \A r \in DOMAIN runs :
     WasSplit(r) =>
       LET length == Bytes(runs[r].audio)
           maxPcm == MaxChunkWavBytes - WavHeaderBytes
           K == Len(tx.chunks)
       IN /\ length + WavHeaderBytes > MaxWavBytes
          /\ tx.chunks[1].start = 0
          /\ \A i \in 1..(K - 1) :
               tx.chunks[i + 1].start = tx.chunks[i].start + tx.chunks[i].length
          /\ tx.chunks[K].start + tx.chunks[K].length = length
          /\ \A i \in 1..K : tx.chunks[i].length >= SplitMinChunkBytes
          /\ \A i \in 1..(K - 1) :
               tx.chunks[i].length + WavHeaderBytes <= MaxChunkWavBytes
          /\ tx.chunks[K].length + WavHeaderBytes
               < MaxChunkWavBytes + SplitMinChunkBytes
          /\ K = length \div maxPcm
                 + (IF length % maxPcm >= SplitMinChunkBytes THEN 1 ELSE 0)

\* C23 witness: a recording was split and the rest after the last full
\* chunk, shorter than 1 s, is part of the last chunk
C23_ResidueMergedIntoLast ==
  \E r \in DOMAIN runs :
     /\ WasSplit(r)
     /\ tx.chunks[Len(tx.chunks)].length > MaxChunkWavBytes - WavHeaderBytes

\* C23 (chunk splitting) as stated: every chunk of a split recording is at
\* most 20 MiB when wrapped as WAV.
C23_EveryChunkWithin20MiB ==
  \A r \in DOMAIN runs :
     WasSplit(r) =>
       \A i \in DOMAIN tx.chunks :
          tx.chunks[i].length + WavHeaderBytes <= MaxChunkWavBytes

\* the number of stitched segments that come from the chunks before chunk i
RECURSIVE SegmentsBefore(_)
SegmentsBefore(i) ==
  IF i <= 1 THEN 0
  ELSE SegmentsBefore(i - 1)
         + (IF tx.chunkResults[i - 1].kind = "text" THEN 1
            ELSE tx.chunkResults[i - 1].n)

\* transcribeCompleteAudio has returned a transcript stitched from chunks
Stitched == tx.pc = "returned" /\ Len(tx.chunks) >= 2

\* C24 (chunk stitching): the duration of a transcript stitched from two or
\* more chunks is the duration of all PCM bytes, every segment of a chunk is
\* shifted by the PCM duration of the chunks before it, whatever durations
\* the provider reported, and the stitched segments do not overlap.
C24_StitchedByPcmDuration ==
  \A r \in DOMAIN runs :
     (Stitched /\ runs[r].pc = "transcribing") =>
       /\ tx.result.kind = "merged"
       /\ tx.result.duration = Bytes(runs[r].audio)
       /\ \A i \in DOMAIN tx.chunks :
            LET res == tx.chunkResults[i]
                shift == Ms(tx.chunks[i].start)
            IN /\ res.kind = "segments" =>
                    \A j \in 1..res.n :
                       /\ tx.result.starts[SegmentsBefore(i) + j]
                            = (j - 1) * 1000 + shift
                       /\ tx.result.ends[SegmentsBefore(i) + j]
                            = j * 1000 + shift
               /\ res.kind = "text" =>
                    tx.result.starts[SegmentsBefore(i) + 1] = shift
       /\ \A p, q \in 1..tx.result.n :
            p < q => tx.result.ends[p] <= tx.result.starts[q]

\* C24 witness: a stitched transcript has segments of two chunks, and the
\* provider reported a duration that is not the chunk's
C24_SegmentsOfTwoChunks ==
  /\ Stitched
  /\ \E i, k \in DOMAIN tx.chunks :
       /\ i < k
       /\ tx.chunkResults[i].n > 0 /\ tx.chunkResults[k].n > 0
       /\ ReportedDuration(tx.chunkResults[i]) # tx.chunks[i].length

\* the start, in ms, of segment j of a transcription result
SegmentStart(res, j) ==
  IF res.kind = "merged" THEN res.starts[j] ELSE (j - 1) * 1000

\* C25 (final transcript timestamps): the segments that
\* transcribeCompleteAudio returned are saved as final transcripts with
\* timestamp startedAt + segment.start, the segment that starts at 0
\* included, so that their timestamps do not decrease in segment order.
C25_SegmentTimestamps ==
  [][\A r \in DOMAIN runs :
       ( /\ runs[r].pc = "transcribing" /\ runs'[r].pc = "cleanup"
         /\ tx.result.kind \in {"segments", "merged"} )
       => /\ Len(transcripts') = Len(transcripts) + tx.result.n
          /\ \A j \in 1..tx.result.n :
               LET saved == transcripts'[Len(transcripts) + j]
               IN /\ saved.isFinal
                  /\ saved.timestamp = startedAt + SegmentStart(tx.result, j)
          /\ \A j, k \in 1..tx.result.n :
               j < k => transcripts'[Len(transcripts) + j].timestamp
                          <= transcripts'[Len(transcripts) + k].timestamp]_vars

\* the delays waited so far before the retries of chunk c
DelaysOf(c) == SelectSeq(tx.delays, LAMBDA d : d.chunk = c)

\* C26 (chunk retry policy): a chunk is submitted at most 4 times; a retry
\* happens only after a retryable failure and after 1 s, 2 s and 4 s
\* (min(1 s x 2^attempt, 10 s)); a failure that is not retryable ends the
\* chunk at once with no retry; the next chunk is submitted only when the
\* chunk before it has its result; under either provider.  A retryable
\* failure is a server error, a rate limit, or a client error whose message
\* is one of the transient ones.
C26_ChunkRetryPolicy ==
  [][tx.chunks # <<>> =>
     LET retryable == \/ tx.status \in 500..599
                      \/ tx.status = 429
                      \/ tx.status \in 400..499 /\ tx.transient
     IN
       /\ tx.attempt <= 3 /\ tx'.attempt <= 3
       /\ \A c \in DOMAIN tx.chunks :
            /\ Len(DelaysOf(c)) <= 3
            /\ \A k \in DOMAIN DelaysOf(c) :
                 DelaysOf(c)[k].ms = <<1000, 2000, 4000>>[k]
       /\ (tx.pc = "request" /\ tx'.pc = "backoff") =>
            /\ Rejected
            /\ retryable
            /\ tx'.i = tx.i /\ tx'.chunkResults = tx.chunkResults
       /\ (tx.pc = "backoff" /\ tx'.pc = "request") =>
            /\ now' - now = <<1000, 2000, 4000>>[tx.attempt + 1]
            /\ tx'.attempt = tx.attempt + 1
            /\ tx'.i = tx.i
       /\ ( /\ tx.pc = "request" /\ Rejected
            /\ tx' # tx /\ ~retryable ) =>
            /\ tx'.pc # "backoff"
            /\ Len(tx'.chunkResults) = tx.i
            /\ tx'.chunkResults[tx.i].kind = "placeholder"
       /\ tx'.i # tx.i =>
            /\ tx'.i = tx.i + 1 /\ tx'.attempt = 0
            /\ Len(tx'.chunkResults) = tx.i
       /\ tx.pc \in {"request", "backoff"} =>
            Len(tx.chunkResults) = tx.i - 1]_vars

\* C26 witness: the fourth submission of a chunk, after three retryable
\* failures and the delays of 1 s, 2 s and 4 s
C26_FourthSubmission ==
  /\ tx.chunks # <<>> /\ tx.pc = "request" /\ tx.attempt = 3
  /\ Len(DelaysOf(tx.i)) = 3
  /\ tx.status = 400 /\ tx.transient

\* the chunks that were not transcribed, by the placeholder pushed for them
FailedChunks == {i \in DOMAIN tx.chunkResults :
                   tx.chunkResults[i].kind = "placeholder"}

\* C27 (partial chunk failure): after a chunk failed the next chunk is
\* submitted all the same; a chunked transcription ends only when every
\* chunk has its result, with an error when all chunks failed and else with
\* a merged transcript whose text holds the placeholder of each failed chunk
\* and in which the segments of every chunk start at the PCM duration of
\* the chunks before it, failed ones included.
C27_ChunkFailureContained ==
  [][tx.chunks # <<>> =>
       /\ ( /\ Len(tx'.chunkResults) = Len(tx.chunkResults) + 1
            /\ tx'.chunkResults[tx.i].kind = "placeholder"
            /\ tx.i < Len(tx.chunks) ) =>
              /\ tx'.pc = "request" /\ tx'.i = tx.i + 1
              /\ tx'.result = Nil
       /\ tx'.pc \in {"returned", "threw"} =>
            /\ Len(tx'.chunkResults) = Len(tx'.chunks)
            /\ tx'.pc = "threw" <=>
                 \A i \in DOMAIN tx'.chunks :
                    tx'.chunkResults[i].kind = "placeholder"
       /\ (tx.pc = "request" /\ tx'.pc = "returned") =>
            LET merged == tx'.result
                results == tx'.chunkResults
                before(i) == SegmentsBefore(i)
            IN /\ merged.kind = "merged"
               /\ \A i \in DOMAIN results :
                    /\ results[i].kind = "placeholder" =>
                         \E p \in DOMAIN merged.text :
                            merged.text[p] = [kind |-> "placeholder",
                                              chunk |-> i]
                    /\ results[i].kind = "segments" =>
                         \A j \in 1..results[i].n :
                            merged.starts[before(i) + j]
                              = (j - 1) * 1000 + Ms(tx.chunks[i].start)
                    /\ results[i].kind = "text" =>
                         merged.starts[before(i) + 1] = Ms(tx.chunks[i].start)]_vars

\* C27 witness: a merged transcript was returned although the first chunk
\* failed, and it holds segments of the second chunk
C27_MergedAfterFailedChunk ==
  /\ tx.pc = "returned" /\ 1 \in FailedChunks
  /\ tx.chunkResults[2].kind = "segments" /\ tx.chunkResults[2].n > 0

\* C28 (streaming close flushes once): close() leaves the transcriber
\* closed with its timer cancelled, and when the window holds at least 1 s
\* of audio at that moment it submits exactly that window, once.
C28_CloseFlushesOnce ==
  [][\A r \in DOMAIN runs :
       ( /\ runs[r].pc = "scheduled" /\ runs'[r].pc # "scheduled"
         /\ Has(SessionId)
         /\ heap[activeSessions[SessionId]].transcription.exists
         /\ heap[activeSessions[SessionId]].transcription.isConnected )
       => LET e == activeSessions[SessionId]
              old == heap[e].transcription
              new == heap'[e].transcription
          IN /\ ~new.isConnected /\ ~new.processingInterval
             /\ Bytes(old.audioBuffer) >= MIN_BUFFER_SIZE =>
                  flushes' \ flushes
                    = {[entry |-> e, window |-> old.audioBuffer]}
             /\ Bytes(old.audioBuffer) < MIN_BUFFER_SIZE =>
                  flushes' = flushes]_vars

\* the transcriber of the session's entry
Live == heap[activeSessions[SessionId]].transcription

\* the frames of a buffer
Frames(buf) == {buf[i].id : i \in DOMAIN buf}

\* C29 (streaming buffers): while the transcriber is open its cumulative
\* buffer is the sequence of all payloads passed to send(), whatever was
\* flushed; once closed, send() changes neither buffer and
\* completeAudioRecording stays the payloads sent before close().
C29_CumulativeBuffer ==
  [][(Has(SessionId) /\ Live.exists) =>
       LET old == Live
           new == Live'
       IN /\ old.isConnected => old.completeAudioRecording = acceptedPcm
          /\ (old.isConnected /\ acceptedPcm' # acceptedPcm) =>
               new.completeAudioRecording = acceptedPcm'
          /\ (old.isConnected /\ ~new.isConnected) =>
               new.completeAudioRecording = acceptedPcm
          /\ ~old.isConnected =>
               /\ new.audioBuffer = old.audioBuffer
               /\ new.completeAudioRecording = old.completeAudioRecording]_vars

\* C29 witness: a payload was sent after close(), and a flush had drained
\* the window before
C29_SentAfterClose ==
  /\ Has(SessionId) /\ Live.exists /\ ~Live.isConnected
  /\ Len(acceptedPcm) > Len(Live.completeAudioRecording)
  /\ Len(Live.audioBuffer) < Len(Live.completeAudioRecording)

\* C30 (streaming flush gate): a window is submitted only when 5 s have
\* passed since the previous flush (or the creation) and it holds 1 s of
\* audio; the step that submits it empties the window buffer and sets
\* lastProcessTime to now; no frame is in two submitted windows, nor in a
\* submitted window and still in the window buffer.
C30_FlushGate ==
  [][(Has(SessionId) /\ Live'.exists) =>
       LET started == flushes' \ flushes IN
       /\ started # {} =>
            /\ Live.exists
            /\ now - Live.lastProcessTime >= 5000
            /\ \E f \in started :
                 /\ started = {f}
                 /\ Bytes(f.window) >= 32000
                 /\ Frames(Live.audioBuffer) \subseteq Frames(f.window)
            /\ Live'.audioBuffer = <<>>
            /\ Live'.lastProcessTime = now
       /\ \A f, g \in flushes' :
            f # g => Frames(f.window) \cap Frames(g.window) = {}
       /\ \A f \in flushes' :
            Frames(f.window) \cap Frames(Live'.audioBuffer) = {}]_vars

\* C30 witness: two windows were submitted and the second flush started 5 s
\* after the first
C30_SecondFlush ==
  /\ Has(SessionId) /\ Live.exists
  /\ Cardinality(flushes) = 2
  /\ Live.lastProcessTime = 10000 /\ now = 10000

\* C31 (streaming failure policy): when the provider call of a flush fails
\* while the transcriber is open, TRANSCRIPTION_ERROR is emitted to the
\* client, no transcript is saved, the transcriber stays connected with its
\* timer, its buffers and its last flush time as they were, and a window
\* that passes the flush gate afterwards is submitted whole.
C31_FlushErrorReported ==
  [][( /\ Has(SessionId) /\ Live.exists /\ Live.isConnected
       /\ \E f \in flushes : flushes' = flushes \ {f}
       /\ transcripts' = transcripts
       /\ out' # {} )
     => /\ out' = {<<Live.socket, "TRANSCRIPTION_ERROR">>}
        /\ sock[Live.socket].state = "open"
        /\ Live' = Live
        /\ Live'.isConnected /\ Live'.processingInterval
        /\ Live'.completeAudioRecording = acceptedPcm
        /\ FlushGate(Live', now') =>
             processAudioBuffer(Live', now').submitted = Live'.audioBuffer]_vars

\* C31 witness: the provider call of a flush has just failed and the next
\* window already passes the flush gate
C31_GateOpenAfterError ==
  /\ Has(SessionId) /\ Live.exists /\ Live.isConnected
  /\ out = {<<"k1", "TRANSCRIPTION_ERROR">>}
  /\ FlushGate(Live, now)

\* C32 (framer rejection is silent): an audio-chunk for the joined session
\* whose payload has 0 bytes or more than 1 MiB sends nothing to the client
\* and leaves the entry's PCM, its frame count, its lastAudioReceived, the
\* transcriber's buffers and the submitted windows as they were.
C32_RejectionSilent ==
  [][\A k \in Sockets, size \in PayloadSizes :
       ( /\ size = 0 \/ size > 1048576
         /\ sock[k].currentSessionId = SessionId
         /\ sock[k].joinId = SessionId
         /\ Has(SessionId)
         /\ AudioChunk(k, size) )
       => LET old == heap[activeSessions[SessionId]]
              new == heap'[activeSessions[SessionId]]
          IN /\ out' = {}
             /\ acceptedPcm' = acceptedPcm
             /\ flushes' = flushes
             /\ new.audioBuffer = old.audioBuffer
             /\ new.audioChunkCount = old.audioChunkCount
             /\ new.lastAudioReceived = old.lastAudioReceived
             /\ old.transcription.exists =>
                  new.transcription = old.transcription]_vars

\* C33 (missing provider key refuses recording): while OPENAI_API_KEY is not
\* set, every audio-chunk for the joined session is answered with an error
\* and changes nothing of the entry: no PCM is appended, no frame counted,
\* no transcriber created, lastAudioReceived not refreshed, nothing
\* submitted; so no entry ever holds audio or a transcriber.
C33_MissingKeyRefused ==
  [][~OPENAI_API_KEY =>
       /\ \A k \in Sockets, size \in PayloadSizes :
            ( /\ sock[k].currentSessionId = SessionId
              /\ sock[k].joinId = SessionId
              /\ Has(SessionId)
              /\ AudioChunk(k, size) )
            => /\ out' = {<<k, "OPENAI_API_KEY_MISSING">>}
               /\ heap' = heap
               /\ acceptedPcm' = acceptedPcm
               /\ flushes' = flushes
       /\ \A e \in DOMAIN heap' :
            /\ ~heap'[e].transcription.exists
            /\ heap'[e].audioBuffer = <<>>
            /\ heap'[e].audioChunkCount = 0
       /\ acceptedPcm' = <<>>]_vars

\* C33 witness: a frame was refused for the missing key after an earlier
\* request of the client
C33_FrameRefused ==
  /\ ~OPENAI_API_KEY
  /\ Has(SessionId)
  /\ out = {<<"k1", "OPENAI_API_KEY_MISSING">>}
  /\ events >= 3

\* C34 (registry entries survive detach): a socket disconnect removes no
\* registry entry and changes nothing of an entry but its socket handle,
\* which it clears only when the disconnecting socket is the attached one;
\* an entry leaves the registry only in a step of a finalization run.
C34_EntriesSurviveDetach ==
  [][/\ \A k \in Sockets :
          (sock[k].state = "open" /\ sock'[k].state = "closed")
          => /\ activeSessions' = activeSessions
             /\ \A e \in DOMAIN heap :
                  heap'[e] = [heap[e] EXCEPT
                                !.socket = IF /\ @ = k
                                              /\ sock[k].currentSessionId # Nil
                                              /\ activeSessions[sock[k].currentSessionId] = e
                                           THEN Nil ELSE @]
     /\ \A sid \in SessionIds :
          (Has(sid) /\ activeSessions'[sid] = 0)
          => \E r \in DOMAIN runs :
               runs[r].pc = "cleanup" /\ runs'[r].pc # "cleanup"]_vars

C36_WavRoundTrip ==
  /\ wav.pc \in {"saved", "loaded"} =>
       /\ Len(wav.file) = 44 + Len(wav.pcm)
       /\ readUInt32LE(wav.file, 4) = 36 + Len(wav.pcm)
       /\ readUInt32LE(wav.file, 40) = Len(wav.pcm)
       /\ \A i \in 1..Len(wav.pcm) : wav.file[44 + i] = wav.pcm[i]
  /\ wav.pc = "loaded" => wav.loaded = wav.pcm

\* C36 witness: a buffer was loaded back from a WAV file whose RIFF size
\* does not fit one byte
C36_LoadedBack ==
  /\ wav.pc = "loaded"
  /\ Len(wav.pcm) = 220
  /\ wav.file[5] = 0 /\ wav.file[6] = 1

\* C37 (Stop versus watchdog race): when the save of a watchdog callback that
\* had passed the 4-minute test lands after a Stop request was served in
\* between, the callback schedules no second run of processSessionStop: the
\* session has at most one finalization run.
C37_OneRunForStopAndWatchdog ==
  [][\A w \in wd :
       (wd' = wd \ {w} /\ Len(stops) = 1) => Len(runs') <= 1]_vars

\* C38 (live partials follow the attached socket): once another socket than
\* the one that created the transcriber is stored in the registry entry,
\* every transcription and TRANSCRIPTION_ERROR event of a flush is emitted to
\* the socket stored in the entry.
C38_PartialsFollowSocket ==
  [][\A f \in flushes :
       ( /\ flushes' = flushes \ {f}
         /\ Has(SessionId) /\ activeSessions[SessionId] = f.entry
         /\ heap[f.entry].socket # Nil
         /\ heap[f.entry].socket # heap[f.entry].transcription.socket )
       => \A m \in out' :
            m[2] \in {"transcription", "TRANSCRIPTION_ERROR"}
              => m[1] = heap[f.entry].socket]_vars

\* C39 (attach is tenant-isolated): a join-session of a socket whose user
\* belongs to another organization than the session's is answered as if the
\* session did not exist: SESSION_NOT_FOUND, and the registry, the watchdog
\* timers and the socket's current session stay as they were.
C39_TenantIsolatedAttach ==
  [][\A k \in Sockets :
       ( /\ organizationId[k] # SessionOrganization
         /\ sock[k].join = "found" /\ sock[k].joinId = SessionId
         /\ sock'[k].join = "idle" )
       => /\ out' = {<<k, "SESSION_NOT_FOUND">>}
          /\ activeSessions' = activeSessions
          /\ heap' = heap
          /\ timers' = timers
          /\ sock'[k].currentSessionId = sock[k].currentSessionId
          /\ qout' = {}]_vars

\* C40 (no registry leak): once a finalization run of the session has returned
\* there is no registry entry and no running watchdog timer for the session,
\* in that state and in every later one (a returned run stays returned, so
\* the invariant also covers entries and timers created afterwards).
C40_NoRegistryLeak ==
  (\E r \in DOMAIN runs : runs[r].pc = "done")
    => /\ ~Has(SessionId)
       /\ timers = {}

====
